---- MODULE Spec2Model ----
(***************************************************************************)
(* Model of the path-keyed aggregation tools of MHM-data-pipelines:        *)
(*   - process-overview.py : the stats engine (walk, extract, merge,       *)
(*     flush per directory);                                               *)
(*   - merge-data.py       : the merge engine (group by key, one merged    *)
(*     artifact per key, skip-if-exists unless --update).                  *)
(*                                                                         *)
(* Encodings.  Path segments (site, participant) are small integers.  A    *)
(* metric string is an integer code whose order is the order of the        *)
(* strings: MetricName(base, 0) is "<base>", MetricName(base, d) is        *)
(* "<base>/<d>".  An ISO timestamp string (Timestamp.isoformat()) is the   *)
(* integer instant it denotes: the strings are compared with < and the     *)
(* fixed-width ISO form orders them as the instants are ordered.  A        *)
(* 'YYYY-MM-DD' day string is the integer Day(t).                          *)
(***************************************************************************)
EXTENDS Integers, Sequences, FiniteSets, TLC

\* ---------------------------------------------------------------- bounds
MaxWalkFiles == 2     \* .csv.gz files in the tree os.walk goes through

\* ------------------------------------------------------- value domains
Sites == {1, 2}          \* site names
Participants == {1, 2}   \* participant names
Devices == {1, 2}        \* device values
RowCounts == {0, 1, 2}   \* numbers of data rows of a file

\* Instants found in 'value.time': 1 and 2 fall on the same day, 5 two days later.
Times == {1, 2, 5}
Day(t) == (t + 1) \div 2

None == 0             \* Python None of start_date / end_date
NaT == -1             \* a 'value.time' cell that to_numeric/to_datetime coerce to NaT
NoDevice == 0         \* a missing (NaN) device cell; also "no device suffix"
Unclassified == <<0, 0>>   \* a directory so shallow that its files have < 4 path parts

Days == {Day(t) : t \in Times}

\* ------------------------------------------------------------- helpers
Min(S) == CHOOSE x \in S : \A y \in S : x <= y
Max(S) == CHOOSE x \in S : \A y \in S : y <= x
Range(s) == {s[i] : i \in DOMAIN s}

RECURSIVE SetToSortedSeq(_)
SetToSortedSeq(S) ==
    IF S = {} THEN <<>> ELSE <<Min(S)>> \o SetToSortedSeq(S \ {Min(S)})

RECURSIVE SumSeq(_)
SumSeq(s) == IF s = <<>> THEN 0 ELSE Head(s) + SumSeq(Tail(s))

\* ------------------------------------------------------------- inputs
\* One row of a .csv.gz file: its 'value.time' cell and its device cell.
RowValues == [time : Times \cup {NaT}, device : Devices \cup {NoDevice}]
RowSeqs == UNION {[1..n -> RowValues] : n \in RowCounts}

\* A file: ok = gzip/read_csv succeed; has_device = some column name contains
\* 'device'.  Without a device column the device cells do not exist, so they
\* are fixed to NoDevice.  A file without a 'value.time' column is a file whose
\* time cells are all NaT (the empty series of line 114).
FileContents ==
    {[ok |-> FALSE, has_device |-> FALSE, rows |-> <<>>]}
    \cup {[ok |-> TRUE, has_device |-> FALSE, rows |-> r] :
             r \in {q \in RowSeqs : \A i \in DOMAIN q : q[i].device = NoDevice}}
    \cup {[ok |-> TRUE, has_device |-> TRUE, rows |-> r] : r \in RowSeqs}

\* The files the walk goes through have at most one data row, of the first
\* device if any (the store sees several instants of a key once several files
\* are merged into it).
WalkFiles ==
    {f \in FileContents :
        /\ Len(f.rows) <= 1
        /\ \A i \in DOMAIN f.rows : f.rows[i].device \in {NoDevice, Min(Devices)}}

\* A directory whose files classify: (site, participant); the metric directory
\* is the same for every file of the walk, its device suffix varies.
Roots == (Sites \X Participants) \cup {Unclassified}

MetricBase == 1
MetricName(base, dev) == base * (Max(Devices) + 1) + dev

\* ------------------------------------------------- gather_file_stats
ValidTimes(file) == {file.rows[i].time : i \in DOMAIN file.rows} \ {NaT}

DeviceValues(file) == {file.rows[i].device : i \in DOMAIN file.rows} \ {NoDevice}

\* only the rows with a valid time are counted (mutant of RowsOfDevice)
RowsOfDeviceValidTime(file, d) ==
    Cardinality({i \in DOMAIN file.rows :
                    file.rows[i].device = d /\ file.rows[i].time # NaT})

RowsOfDevice(file, d) == Cardinality({i \in DOMAIN file.rows : file.rows[i].device = d})

Fact(root, metric, n, file) ==
    LET valid == ValidTimes(file) IN
    [site |-> root[1], participant |-> root[2], metric |-> metric,
     row_count |-> n,
     start_date |-> IF valid = {} THEN None ELSE Min(valid),
     end_date |-> IF valid = {} THEN None ELSE Max(valid),
     day_set |-> {Day(t) : t \in valid}]

\* the device column is not looked at (mutant of GatherFileStats)
GatherFileStatsWholeFile(root, file) ==
    IF ~file.ok THEN <<>>
    ELSE <<Fact(root, MetricName(MetricBase, NoDevice), Len(file.rows), file)>>

GatherFileStats(root, file) ==
    IF ~file.ok THEN <<>>
    ELSE IF file.has_device
    THEN LET devs == SetToSortedSeq(DeviceValues(file)) IN
         [i \in 1..Len(devs) |->
            Fact(root, MetricName(MetricBase, devs[i]), RowsOfDevice(file, devs[i]), file)]
    ELSE <<Fact(root, MetricName(MetricBase, NoDevice), Len(file.rows), file)>>

\* ------------------------------------------------------- the store
\* global_stats is a Python dict: a sequence of entries [key, acc] in insertion
\* order, with at most one entry per key.
KeyOf(row) == <<row.site, row.participant, row.metric>>

Keys(store) == {store[i].key : i \in DOMAIN store}

Get(store, key) == (CHOOSE e \in Range(store) : e.key = key).acc

\* defaultdict's factory (lines 268-273)
NewRecord == [row_count |-> 0, start_date |-> None, end_date |-> None, day_set |-> {}]

\* acc = global_stats[key]: the entry is created when the key is missing
Touch(store, key) ==
    IF key \in Keys(store) THEN store ELSE Append(store, [key |-> key, acc |-> NewRecord])

Put(store, key, acc) ==
    [i \in DOMAIN store |-> IF store[i].key = key THEN [key |-> key, acc |-> acc]
                            ELSE store[i]]

\* a start_date that came first and an end_date that came last win (mutant of MergeRow)
MergeRowOverwrite(acc, row) ==
    [row_count |-> acc.row_count + row.row_count,
     start_date |-> IF row.start_date # None THEN row.start_date ELSE acc.start_date,
     end_date |-> IF row.end_date # None THEN row.end_date ELSE acc.end_date,
     day_set |-> acc.day_set \cup row.day_set]

\* None compared as the smallest value (mutant of MergeRow)
MergeRowNoneMinimal(acc, row) ==
    [row_count |-> acc.row_count + row.row_count,
     start_date |-> IF row.start_date # None /\ row.start_date < acc.start_date
                    THEN row.start_date ELSE acc.start_date,
     end_date |-> IF row.end_date # None /\ row.end_date > acc.end_date
                  THEN row.end_date ELSE acc.end_date,
     day_set |-> acc.day_set \cup row.day_set]

\* the body of main's accumulation loop (lines 312-324)
MergeRow(acc, row) ==
    [row_count |-> acc.row_count + row.row_count,
     start_date |-> IF row.start_date # None
                       /\ (acc.start_date = None \/ row.start_date < acc.start_date)
                    THEN row.start_date ELSE acc.start_date,
     end_date |-> IF row.end_date # None
                     /\ (acc.end_date = None \/ row.end_date > acc.end_date)
                  THEN row.end_date ELSE acc.end_date,
     day_set |-> acc.day_set \cup row.day_set]

\* the lookup also touches the key of the undecorated metric (mutant of
\* MergeDirectoryStats)
RECURSIVE MergeDirectoryStatsTouchBase(_, _)
MergeDirectoryStatsTouchBase(store, rows) ==
    IF rows = <<>> THEN store
    ELSE LET row == Head(rows)
             base == <<row.site, row.participant,
                       MetricName(row.metric \div (Max(Devices) + 1), NoDevice)>>
             touched == Touch(Touch(store, base), KeyOf(row))
         IN MergeDirectoryStatsTouchBase(
                Put(touched, KeyOf(row), MergeRow(Get(touched, KeyOf(row)), row)),
                Tail(rows))

\* main's accumulation loop (lines 305-324)
RECURSIVE MergeDirectoryStats(_, _)
MergeDirectoryStats(store, rows) ==
    IF rows = <<>> THEN store
    ELSE LET key == KeyOf(Head(rows))
             touched == Touch(store, key)
         IN MergeDirectoryStats(
                Put(touched, key, MergeRow(Get(touched, key), Head(rows))),
                Tail(rows))

\* a flush only when the directory brought a key not seen before (mutant of
\* DirectoryChanged)
DirectoryChangedNewKeys(store, rows) ==
    \E i \in DOMAIN rows : KeyOf(rows[i]) \notin Keys(store)

\* directory_changed (lines 279, 301-303); store is global_stats before the merge
DirectoryChanged(store, rows) == rows # <<>>

\* ------------------------------------------- write_stats_per_site_and_all
\* the days from start_date to end_date (mutant of DayCount)
DayCountSpan(acc) ==
    IF acc.start_date = None THEN 0 ELSE Day(acc.end_date) - Day(acc.start_date) + 1

\* lines 208-210
DayCount(acc) == IF acc.day_set # {} THEN Cardinality(acc.day_set) ELSE 0

\* lines 206-219
BuildRows(store) ==
    [i \in DOMAIN store |->
        [site |-> store[i].key[1], participant |-> store[i].key[2],
         metric |-> store[i].key[3],
         row_count |-> store[i].acc.row_count,
         start_date |-> store[i].acc.start_date,
         end_date |-> store[i].acc.end_date,
         day_count |-> DayCount(store[i].acc)]]

KeyLess(a, b) ==
    \/ a[1] < b[1]
    \/ a[1] = b[1] /\ a[2] < b[2]
    \/ a[1] = b[1] /\ a[2] = b[2] /\ a[3] < b[3]

RECURSIVE InsertSorted(_, _)
InsertSorted(sorted, r) ==
    IF sorted = <<>> THEN <<r>>
    ELSE IF KeyLess(KeyOf(r), KeyOf(Head(sorted))) THEN <<r>> \o sorted
    ELSE <<Head(sorted)>> \o InsertSorted(Tail(sorted), r)

\* the frame is left in the order of the dict (mutant of SortValues)
SortValuesOmitted(rows) == rows

\* df_all.sort_values(by=['site','participant','metric']) (line 226)
RECURSIVE SortValues(_)
SortValues(rows) ==
    IF rows = <<>> THEN <<>>
    ELSE InsertSorted(SortValues(Tail(rows)), Head(rows))

\* df_all['site'].unique(): the sites in order of first appearance (line 230)
RECURSIVE UniqueSites(_)
UniqueSites(df) ==
    IF df = <<>> THEN <<>>
    ELSE LET rest == UniqueSites(SelectSeq(Tail(df), LAMBDA r : r.site # Head(df).site))
         IN <<Head(df).site>> \o rest

\* df_all[df_all['site'] == site_name] (line 231)
SiteRows(df, s) == SelectSeq(df, LAMBDA r : r.site = s)

\* ---------------------------------------------------------------- state
VARIABLES
    \* the stats engine (process-overview.py main)
    pc,               \* "walk", "files", "write_site", "write_all", "done", "crashed"
    files_budget,     \* files of the tree os.walk has not reached yet
    files_left,       \* files of the current directory still to scan
    root,             \* (site, participant) of the current directory, or Unclassified
    directory_stats,  \* facts gathered in the current directory
    global_stats,     \* the aggregate store
    df_all,           \* the sorted frame of the flush in progress
    sites_todo,       \* sites whose file the flush has still to write
    site_files,       \* disk: site -> rows of <site>_stats
    all_sites_file,   \* disk: rows of all_sites (<<>> = no such file)
    merged,           \* history: the facts merged so far, in merge order
    n_fact_dirs,      \* history: directories that produced facts
    n_flushes,        \* history: completed flushes
    \* two merge orders of the same fact lists, side by side
    c_pc,             \* "idle", "start", "seeded", "picked", "half", "merged"
    c_impl,           \* "function" (accumulate_stats) or "inline" (main's loop)
    c_A, c_B,         \* the two fact lists
    c_ab, c_ba,       \* the store merged A then B, and B then A
    \* the merge engine (merge-data.py main)
    t_pc,             \* "off", "idle", "run"
    t_tree,           \* input tree: key -> files of the key, in walk order
    t_out,            \* disk: key -> merged artifact (NoArtifact = no such file)
    t_update,         \* --update of the current run
    t_todo,           \* keys the current run has still to process
    t_runs,           \* runs started
    t_reads,          \* history: files the current run opened, as <<key, index>>
    t_writes,         \* history: keys whose artifact the current run wrote
    t_last,           \* history: the last process_metric call
    t_prev,           \* history: the previous run and the disk it left
    \* one directory walk with --include/--exclude (the three walkers, the fetcher)
    w_pc,             \* "off", "walk", "done"
    w_tool,           \* "stats", "merge", "extract", "download"
    w_include,        \* include_list, as a set of names
    w_exclude,        \* exclude_list, as a set of names
    w_filedirs,       \* the directories of the tree that hold a .csv.gz file
    w_stack,          \* os.walk: directories still to yield, next first
    w_visited,        \* history: directories os.walk yielded
    w_processed,      \* history: files handed on (gathered, grouped, summarised, fetched)
    w_inc_rejected,   \* history: files turned down by the include rule
    \* one file through parse_file_path and the stats engine's loop body
    p_pc,             \* "off", "file", "parsed", "done"
    p_dirs,           \* directory segments of the path relative to input_dir
    p_name,           \* the file name, as tokens
    p_info,           \* process-overview.py parse_file_path's result
    p_minfo,          \* merge-data.py parse_file_path's result
    p_handed,         \* the file reached gather_file_stats
    p_store0,         \* the store before the file's directory
    p_store,          \* the store after the file's directory
    \* one file through gather_file_stats and the stats engine's loop body
    x_pc,             \* "off", "file", "gathered", "merged"
    x_file,           \* the file
    x_raise,          \* where gather_file_stats raises on it
    x_results,        \* what gather_file_stats returned
    x_store0,         \* the store before the file's directory
    x_store           \* the store after the file's directory

stats_vars == <<pc, files_budget, files_left, root, directory_stats, global_stats,
                df_all, sites_todo, site_files, all_sites_file, merged, n_fact_dirs,
                n_flushes>>
commute_vars == <<c_pc, c_impl, c_A, c_B, c_ab, c_ba>>
tool_vars == <<t_pc, t_tree, t_out, t_update, t_todo, t_runs, t_reads, t_writes,
               t_last, t_prev>>
walk_vars == <<w_pc, w_tool, w_include, w_exclude, w_filedirs, w_stack, w_visited,
               w_processed, w_inc_rejected>>
parse_vars == <<p_pc, p_dirs, p_name, p_info, p_minfo, p_handed, p_store0, p_store>>
extract_vars == <<x_pc, x_file, x_raise, x_results, x_store0, x_store>>
VARIABLES
    \* writes into one output directory, under any --output-format string
    o_pc,             \* "off", "idle", "written"
    o_tool,           \* "stats", "merge", "collect": whose write function is called
    o_format,         \* output_format of the last call
    o_before,         \* disk: the output directory before the last call
    o_disk            \* disk: artifact name -> content

format_vars == <<o_pc, o_tool, o_format, o_before, o_disk>>
VARIABLES
    \* one file through the patient-summary extractor (extract_patient_summary.py main)
    s_pc,             \* "off", "features", "questionnaire", "sliders", "histograms", "write", "done"
    s_cfg,            \* the parsed command line: feature, questionnaire, slider, histogram definitions
    s_file,           \* the .csv.gz file: participant, metric directory, rows
    s_data,           \* summary_data: (participant, time key) -> record
    s_docs,           \* disk: (participant, time key) -> JSON document
    s_raised          \* history: the extraction paths that ended in the except clause

summary_vars == <<s_pc, s_cfg, s_file, s_data, s_docs, s_raised>>
VARIABLES
    \* runs of the fetcher over one bucket listing (download_data.py download_s3_objects)
    d_pc,             \* "off", "run", "ended"
    d_listing,        \* the pages of the listing, each a sequence of keys
    d_filter,         \* exclude_sites and include_sites
    d_baddirs,        \* local directories os.makedirs fails on
    d_start,          \* start_at_page of the run
    d_skip,           \* skip_file_check of the run
    d_page,           \* current_page: the number of the next page
    d_local,          \* disk: the keys whose local file exists
    d_local0,         \* history: d_local when the run began
    d_queued,         \* history: keys the run put into tasks
    d_failed,         \* history: keys whose download raised in the run
    d_written,        \* history: keys whose local file the run wrote
    d_run,            \* the number of the run
    d_prev            \* history: the run before

download_vars == <<d_pc, d_listing, d_filter, d_baddirs, d_start, d_skip, d_page, d_local,
                   d_local0, d_queued, d_failed, d_written, d_run, d_prev>>
VARIABLES
    \* one run of the bucket summary tool (summary.py and main.py, class S3Bucket)
    b_pc,             \* "off", "start", "ready", "updated"
    b_tool,           \* "summary" (summary.py) or "main" (main.py)
    b_listing,        \* the objects list_objects_v2 returns, as a set
    b_cache,          \* disk: summary_data.pkl
    b_users,          \* self.users
    b_loaded,         \* history: gather_info loaded the cache file
    b_raised          \* history: the command raised

bucket_vars == <<b_pc, b_tool, b_listing, b_cache, b_users, b_loaded, b_raised>>
vars == <<stats_vars, commute_vars, tool_vars, walk_vars, parse_vars, extract_vars, format_vars, summary_vars, download_vars, bucket_vars>>

disk == <<site_files, all_sites_file>>

\* ------------------------------------------------- the stats engine's run
StatsInit ==
    /\ pc = "walk"
    /\ files_budget = MaxWalkFiles
    /\ files_left = 0
    /\ root = Unclassified
    /\ directory_stats = <<>>
    /\ global_stats = <<>>
    /\ df_all = <<>>
    /\ sites_todo = <<>>
    /\ site_files = [s \in {} |-> <<>>]
    /\ all_sites_file = <<>>
    /\ merged = <<>>
    /\ n_fact_dirs = 0
    /\ n_flushes = 0

StatsOff ==
    /\ pc = "off"
    /\ files_budget = 0
    /\ files_left = 0
    /\ root = Unclassified
    /\ directory_stats = <<>>
    /\ global_stats = <<>>
    /\ df_all = <<>>
    /\ sites_todo = <<>>
    /\ site_files = [s \in {} |-> <<>>]
    /\ all_sites_file = <<>>
    /\ merged = <<>>
    /\ n_fact_dirs = 0
    /\ n_flushes = 0

\* os.walk yields the next directory (lines 277-280)
EnterDirectory ==
    /\ pc = "walk"
    /\ \E r \in Roots : root' = r
    /\ \E n \in 0..files_budget :
          /\ files_left' = n
          /\ files_budget' = files_budget - n
    /\ directory_stats' = <<>>
    /\ pc' = "files"
    /\ UNCHANGED <<global_stats, df_all, sites_todo, disk, merged, n_fact_dirs,
                   n_flushes>>
    /\ UNCHANGED <<commute_vars, tool_vars, walk_vars, parse_vars, extract_vars, format_vars, summary_vars, download_vars, bucket_vars>>

\* one iteration of the loop over the directory's files (lines 282-299): a file
\* with fewer than 4 path parts is skipped, the others are read
ProcessFile ==
    /\ pc = "files"
    /\ files_left > 0
    /\ files_left' = files_left - 1
    /\ \E file \in WalkFiles :
          directory_stats' =
             IF root = Unclassified THEN directory_stats
             ELSE directory_stats \o GatherFileStats(root, file)
    /\ UNCHANGED <<pc, files_budget, root, global_stats, df_all, sites_todo, disk,
                   merged, n_fact_dirs, n_flushes>>
    /\ UNCHANGED <<commute_vars, tool_vars, walk_vars, parse_vars, extract_vars, format_vars, summary_vars, download_vars, bucket_vars>>

\* the directory is scanned: merge its facts (lines 301-326) and, if it brought
\* any, build and sort the frame of the flush (lines 328-330, 202-227)
FinishDirectory ==
    /\ pc = "files"
    /\ files_left = 0
    /\ global_stats' = IF directory_stats # <<>>
                       THEN MergeDirectoryStats(global_stats, directory_stats)
                       ELSE global_stats
    /\ merged' = merged \o directory_stats
    /\ n_fact_dirs' = IF directory_stats # <<>> THEN n_fact_dirs + 1 ELSE n_fact_dirs
    /\ IF DirectoryChanged(global_stats, directory_stats) /\ global_stats' # <<>>
       THEN /\ df_all' = SortValues(BuildRows(global_stats'))
            /\ sites_todo' = UniqueSites(df_all')
            /\ pc' = "write_site"
       ELSE /\ pc' = "walk"
            /\ UNCHANGED <<df_all, sites_todo>>
    /\ directory_stats' = <<>>
    /\ UNCHANGED <<files_budget, files_left, root, disk, n_flushes>>
    /\ UNCHANGED <<commute_vars, tool_vars, walk_vars, parse_vars, extract_vars, format_vars, summary_vars, download_vars, bucket_vars>>

\* df_site.to_csv / to_parquet of one site (lines 230-239)
WriteSiteFile ==
    /\ pc = "write_site"
    /\ sites_todo # <<>>
    /\ site_files' = [s \in DOMAIN site_files \cup {Head(sites_todo)} |->
                        IF s = Head(sites_todo) THEN SiteRows(df_all, s)
                        ELSE site_files[s]]
    /\ sites_todo' = Tail(sites_todo)
    /\ pc' = IF Tail(sites_todo) = <<>> THEN "write_all" ELSE "write_site"
    /\ UNCHANGED <<files_budget, files_left, root, directory_stats, global_stats,
                   df_all, all_sites_file, merged, n_fact_dirs, n_flushes>>
    /\ UNCHANGED <<commute_vars, tool_vars, walk_vars, parse_vars, extract_vars, format_vars, summary_vars, download_vars, bucket_vars>>

\* df_all.to_csv / to_parquet of the combined file (lines 241-249)
WriteCombined ==
    /\ pc = "write_all"
    /\ all_sites_file' = df_all
    /\ df_all' = <<>>
    /\ n_flushes' = n_flushes + 1
    /\ pc' = "walk"
    /\ UNCHANGED <<files_budget, files_left, root, directory_stats, global_stats,
                   sites_todo, site_files, merged, n_fact_dirs>>
    /\ UNCHANGED <<commute_vars, tool_vars, walk_vars, parse_vars, extract_vars, format_vars, summary_vars, download_vars, bucket_vars>>

\* os.walk is exhausted (line 334)
EndWalk ==
    /\ pc = "walk"
    /\ files_budget = 0
    /\ pc' = "done"
    /\ UNCHANGED <<files_budget, files_left, root, directory_stats, global_stats,
                   df_all, sites_todo, disk, merged, n_fact_dirs, n_flushes>>
    /\ UNCHANGED <<commute_vars, tool_vars, walk_vars, parse_vars, extract_vars, format_vars, summary_vars, download_vars, bucket_vars>>

\* the process is terminated (signal, crash): its memory is gone, what is on
\* disk stays
Terminate ==
    /\ pc \in {"walk", "files", "write_site", "write_all"}
    /\ pc' = "crashed"
    /\ files_budget' = 0
    /\ files_left' = 0
    /\ root' = Unclassified
    /\ directory_stats' = <<>>
    /\ global_stats' = <<>>
    /\ df_all' = <<>>
    /\ sites_todo' = <<>>
    /\ merged' = <<>>
    /\ n_fact_dirs' = 0
    /\ n_flushes' = 0
    /\ UNCHANGED disk
    /\ UNCHANGED <<commute_vars, tool_vars, walk_vars, parse_vars, extract_vars, format_vars, summary_vars, download_vars, bucket_vars>>

\* ---------------------------------------- accumulate_stats, in two orders
\* the body of accumulate_stats' loop (lines 180-194)
AccumulateRow(acc, row) ==
    LET sd == row.start_date
        ed == row.end_date
    IN [row_count |-> acc.row_count + row.row_count,
        start_date |-> IF sd # None /\ (acc.start_date = None \/ sd < acc.start_date)
                       THEN sd ELSE acc.start_date,
        end_date |-> IF ed # None /\ (acc.end_date = None \/ ed > acc.end_date)
                     THEN ed ELSE acc.end_date,
        day_set |-> acc.day_set \cup row.day_set]

\* accumulate_stats (lines 168-194)
RECURSIVE AccumulateStats(_, _)
AccumulateStats(store, file_stats) ==
    IF file_stats = <<>> THEN store
    ELSE LET key == KeyOf(Head(file_stats))
             touched == Touch(store, key)
         IN AccumulateStats(
                Put(touched, key, AccumulateRow(Get(touched, key), Head(file_stats))),
                Tail(file_stats))

MergeWith(impl, store, rows) ==
    IF impl = "function" THEN AccumulateStats(store, rows)
    ELSE MergeDirectoryStats(store, rows)

\* the fact lists one file of the directory of site 1, participant 1 can yield
FactLists == {GatherFileStats(<<1, 1>>, f) : f \in FileContents}

CommuteInit ==
    /\ c_pc = "start"
    /\ c_impl \in {"function", "inline"}
    /\ c_A = <<>>
    /\ c_B = <<>>
    /\ c_ab = <<>>
    /\ c_ba = <<>>

CommuteOff ==
    /\ c_pc = "idle"
    /\ c_impl = "inline"
    /\ c_A = <<>>
    /\ c_B = <<>>
    /\ c_ab = <<>>
    /\ c_ba = <<>>

\* the starting store: what an earlier file left
CommuteSeed ==
    /\ c_pc = "start"
    /\ \E rows \in FactLists \ {<<>>} :
          /\ c_ab' = MergeWith(c_impl, <<>>, rows)
          /\ c_ba' = c_ab'
    /\ c_pc' = "seeded"
    /\ UNCHANGED <<c_impl, c_A, c_B>>
    /\ UNCHANGED <<stats_vars, tool_vars, walk_vars, parse_vars, extract_vars, format_vars, summary_vars, download_vars, bucket_vars>>

CommutePick ==
    /\ c_pc \in {"start", "seeded"}
    /\ \E a \in FactLists, b \in FactLists :
          /\ c_A' = a
          /\ c_B' = b
    /\ c_pc' = "picked"
    /\ UNCHANGED <<c_impl, c_ab, c_ba>>
    /\ UNCHANGED <<stats_vars, tool_vars, walk_vars, parse_vars, extract_vars, format_vars, summary_vars, download_vars, bucket_vars>>

\* one store takes A first, the other B first
CommuteFirst ==
    /\ c_pc = "picked"
    /\ c_ab' = MergeWith(c_impl, c_ab, c_A)
    /\ c_ba' = MergeWith(c_impl, c_ba, c_B)
    /\ c_pc' = "half"
    /\ UNCHANGED <<c_impl, c_A, c_B>>
    /\ UNCHANGED <<stats_vars, tool_vars, walk_vars, parse_vars, extract_vars, format_vars, summary_vars, download_vars, bucket_vars>>

CommuteSecond ==
    /\ c_pc = "half"
    /\ c_ab' = MergeWith(c_impl, c_ab, c_B)
    /\ c_ba' = MergeWith(c_impl, c_ba, c_A)
    /\ c_pc' = "merged"
    /\ UNCHANGED <<c_impl, c_A, c_B>>
    /\ UNCHANGED <<stats_vars, tool_vars, walk_vars, parse_vars, extract_vars, format_vars, summary_vars, download_vars, bucket_vars>>

\* ------------------------------------------- the merge engine (merge-data.py)
MaxToolFiles == 2     \* input files of one key
MaxToolRuns == 2      \* runs of the engine over the output directory

ToolKeys == {1, 2}    \* the (site, participant, metric) keys of the input tree
NoArtifact == <<>>

\* An input file of a key: the timestamp of its name, its content, and whether
\* gzip.open/read_csv succeed on it (an unreadable file has no content to tell
\* apart).
ToolFiles ==
    {f \in [timestamp : 1..MaxToolFiles, data : {1, 2}, readable : BOOLEAN] :
        ~f.readable => f.data = 1}

\* The files of a key have distinct names: the i-th carries timestamp i.
ToolFileSeqs ==
    UNION {{s \in [1..n -> ToolFiles] : \A i \in 1..n : s[i].timestamp = i} :
              n \in 0..MaxToolFiles}
ToolTrees == [ToolKeys -> ToolFileSeqs]

\* the frames process_metric collects (lines 72-87): one per readable file, with
\* the three added columns
RECURSIVE DataFrames(_, _)
DataFrames(key, files) ==
    IF files = <<>> THEN <<>>
    ELSE (IF Head(files).readable
          THEN <<[file_timestamp |-> Head(files).timestamp, key |-> key,
                  data |-> Head(files).data]>>
          ELSE <<>>) \o DataFrames(key, Tail(files))

\* the update flag is ignored (mutant of SkipExisting)
SkipExistingAlways(update, exists) == exists

\* the output is never looked at (mutant of SkipExisting)
SkipExistingNever(update, exists) == FALSE

\* line 68
SkipExisting(update, exists) == ~update /\ exists

\* process_metric (lines 54-100): the artifact of the key afterwards
ProcessMetricOut(files, key, before, update) ==
    IF SkipExisting(update, before # NoArtifact) THEN before
    ELSE IF DataFrames(key, files) # <<>> THEN DataFrames(key, files)
    ELSE before

\* process_metric (lines 72-79): the files it opens
ProcessMetricReads(files, key, before, update) ==
    IF SkipExisting(update, before # NoArtifact) THEN {}
    ELSE {<<key, i>> : i \in DOMAIN files}

ToolInit ==
    /\ t_pc = "idle"
    /\ t_tree \in ToolTrees
    /\ t_out = [k \in ToolKeys |-> NoArtifact]
    /\ t_update = FALSE
    /\ t_todo = <<>>
    /\ t_runs = 0
    /\ t_reads = {}
    /\ t_writes = {}
    /\ t_last = [key |-> 0, before |-> NoArtifact]
    /\ t_prev = [update |-> TRUE, out |-> t_out, same_tree |-> FALSE]

ToolOff ==
    /\ t_pc = "off"
    /\ t_tree = [k \in ToolKeys |-> <<>>]
    /\ t_out = [k \in ToolKeys |-> NoArtifact]
    /\ t_update = FALSE
    /\ t_todo = <<>>
    /\ t_runs = 0
    /\ t_reads = {}
    /\ t_writes = {}
    /\ t_last = [key |-> 0, before |-> NoArtifact]
    /\ t_prev = [update |-> TRUE, out |-> t_out, same_tree |-> FALSE]

\* main up to line 152: the walk groups the files by key; a key with no file
\* is not in files_by_site_participant_metric
ToolStartRun ==
    /\ t_pc = "idle"
    /\ t_runs < MaxToolRuns
    /\ \E u \in BOOLEAN : t_update' = u
    /\ t_todo' = SetToSortedSeq({k \in ToolKeys : t_tree[k] # <<>>})
    /\ t_runs' = t_runs + 1
    /\ t_reads' = {}
    /\ t_writes' = {}
    /\ t_last' = [key |-> 0, before |-> NoArtifact]
    /\ t_pc' = "run"
    /\ UNCHANGED <<t_tree, t_out, t_prev>>
    /\ UNCHANGED <<stats_vars, commute_vars, walk_vars, parse_vars, extract_vars, format_vars, summary_vars, download_vars, bucket_vars>>

\* one call of process_metric from main's loop (lines 153-165)
ToolProcessMetric ==
    /\ t_pc = "run"
    /\ t_todo # <<>>
    /\ LET key == Head(t_todo)
           after == ProcessMetricOut(t_tree[key], key, t_out[key], t_update)
       IN /\ t_out' = [t_out EXCEPT ![key] = after]
          /\ t_reads' = t_reads \cup
                           ProcessMetricReads(t_tree[key], key, t_out[key], t_update)
          /\ t_writes' = IF SkipExisting(t_update, t_out[key] # NoArtifact)
                            \/ DataFrames(key, t_tree[key]) = <<>>
                         THEN t_writes ELSE t_writes \cup {key}
          /\ t_last' = [key |-> key, before |-> t_out[key]]
    /\ t_todo' = Tail(t_todo)
    /\ UNCHANGED <<t_pc, t_tree, t_update, t_runs, t_prev>>
    /\ UNCHANGED <<stats_vars, commute_vars, walk_vars, parse_vars, extract_vars, format_vars, summary_vars, download_vars, bucket_vars>>

\* line 167
ToolEndRun ==
    /\ t_pc = "run"
    /\ t_todo = <<>>
    /\ t_pc' = "idle"
    /\ t_prev' = [update |-> t_update, out |-> t_out, same_tree |-> TRUE]
    /\ UNCHANGED <<t_tree, t_out, t_update, t_todo, t_runs, t_reads, t_writes, t_last>>
    /\ UNCHANGED <<stats_vars, commute_vars, walk_vars, parse_vars, extract_vars, format_vars, summary_vars, download_vars, bucket_vars>>

\* between two runs the input tree changes: a file of a key is replaced (new
\* content, or it becomes unreadable or readable)
ToolChangeTree ==
    /\ t_pc = "idle"
    /\ t_runs \in 1..(MaxToolRuns - 1)
    /\ t_prev.same_tree
    /\ \E k \in ToolKeys : \E i \in DOMAIN t_tree[k] : \E f \in ToolFiles :
          /\ f # t_tree[k][i]
          /\ f.timestamp = t_tree[k][i].timestamp
          /\ t_tree' = [t_tree EXCEPT ![k][i] = f]
    /\ t_prev' = [t_prev EXCEPT !.same_tree = FALSE]
    /\ UNCHANGED <<t_pc, t_out, t_update, t_todo, t_runs, t_reads, t_writes, t_last>>
    /\ UNCHANGED <<stats_vars, commute_vars, walk_vars, parse_vars, extract_vars, format_vars, summary_vars, download_vars, bucket_vars>>

\* ------------------------------------------- --include / --exclude filters
MinParts == 4           \* parse_file_path: fewer path parts do not classify
ExtractMinParts == 3    \* the same test of extract_patient_summary.py

MaxTreeFiles == 2       \* directories of the input tree that hold a .csv.gz file

\* Directory names.  1 is spelled "a" and 2 is spelled "ab": the names differ,
\* and the first is a substring of the second.
SegNames == {1, 2}
Spelling(n) == IF n = 1 THEN <<1>> ELSE <<1, 2>>

\* the file name as a path segment (no list holds a file name)
FileSeg == 9

\* Python's `inc in part` on two strings
IsSubstring(inc, part) ==
    \E i \in 1..(Len(part) - Len(inc) + 1) :
        SubSeq(part, i, i + Len(inc) - 1) = inc

\* Directories relative to input_dir, down to the depth at which a file has
\* MinParts path parts.  <<>> is input_dir itself (os.path.relpath gives ".",
\* which is in no list).
DirPaths == UNION {[1..n -> SegNames] : n \in 0..(MinParts - 1)}

IsPrefix(p, d) == Len(p) <= Len(d) /\ SubSeq(d, 1, Len(p)) = p

\* the directories of a tree whose files lie in filedirs
TreeDirs(filedirs) == {p \in DirPaths : \E d \in filedirs : IsPrefix(p, d)}

Children(filedirs, d) == {c \in TreeDirs(filedirs) : Len(c) = Len(d) + 1 /\ IsPrefix(d, c)}

\* the orders in which os.listdir may give a set of subdirectories
Orderings(S) == {s \in [1..Cardinality(S) -> S] : Range(s) = S}

\* path_parts of the file of a directory
PartsOf(d) == Append(d, FileSeg)

AnyIn(parts, list) == \E i \in DOMAIN parts : parts[i] \in list

\* an include match admits the file before the exclude list is looked at
\* (mutant of FilePassesIncludeExclude)
FilePassesIncludeFirst(path_parts, include_list, exclude_list) ==
    IF include_list # {} /\ AnyIn(path_parts, include_list) THEN TRUE
    ELSE IF exclude_list # {} /\ AnyIn(path_parts, exclude_list) THEN FALSE
    ELSE include_list = {}

\* process-overview.py file_passes_include_exclude (lines 16-33)
FilePassesIncludeExclude(path_parts, include_list, exclude_list) ==
    IF exclude_list # {} /\ AnyIn(path_parts, exclude_list) THEN FALSE
    ELSE IF include_list # {} /\ ~AnyIn(path_parts, include_list) THEN FALSE
    ELSE TRUE

\* download_data.py should_exclude_key (lines 63-69)
ShouldExcludeKey(path_parts, exclude_sites, include_sites) ==
    IF exclude_sites # {} /\ (\E site \in exclude_sites : site \in Range(path_parts))
    THEN TRUE
    ELSE IF include_sites # {} /\ ~(\E site \in include_sites : site \in Range(path_parts))
    THEN TRUE
    ELSE FALSE

\* extract_patient_summary.py matches_include (lines 171-176)
MatchesInclude(dir_parts, include_list) ==
    \E i \in DOMAIN dir_parts : \E inc \in include_list :
        IsSubstring(Spelling(inc), Spelling(dir_parts[i]))

WalkerTools == {"stats", "merge", "extract"}

\* One iteration of the walker's os.walk loop at directory d, as
\* [processed, inc_rejected, descend]: is the file of d handed on, is it turned
\* down by the include rule, does os.walk go on below d.
\* process-overview.py main (lines 277-299)
StatsVisit(d, has_file, inc, exc) ==
    LET parts == PartsOf(d)
        classified == has_file /\ Len(parts) >= MinParts
    IN [processed |-> classified /\ FilePassesIncludeExclude(parts, inc, exc),
        inc_rejected |-> /\ classified
                         /\ ~(exc # {} /\ AnyIn(parts, exc))
                         /\ ~FilePassesIncludeExclude(parts, inc, exc),
        descend |-> TRUE]

\* merge-data.py main (lines 122-150)
MergeVisit(d, has_file, inc, exc) ==
    IF AnyIn(d, exc)
    THEN [processed |-> FALSE, inc_rejected |-> FALSE, descend |-> FALSE]
    ELSE IF has_file /\ inc # {} /\ ~AnyIn(d, inc)
    THEN [processed |-> FALSE, inc_rejected |-> TRUE, descend |-> TRUE]
    ELSE [processed |-> has_file /\ Len(PartsOf(d)) >= MinParts,
          inc_rejected |-> FALSE, descend |-> TRUE]

\* extract_patient_summary.py main (lines 238-257)
ExtractVisit(d, has_file, inc, exc) ==
    IF AnyIn(d, exc)
    THEN [processed |-> FALSE, inc_rejected |-> FALSE, descend |-> TRUE]
    ELSE IF has_file /\ inc # {} /\ ~MatchesInclude(d, inc)
    THEN [processed |-> FALSE, inc_rejected |-> TRUE, descend |-> TRUE]
    ELSE [processed |-> has_file /\ Len(PartsOf(d)) >= ExtractMinParts,
          inc_rejected |-> FALSE, descend |-> TRUE]

Visit(tool, d, has_file, inc, exc) ==
    CASE tool = "stats" -> StatsVisit(d, has_file, inc, exc)
      [] tool = "merge" -> MergeVisit(d, has_file, inc, exc)
      [] OTHER -> ExtractVisit(d, has_file, inc, exc)

WalkInit ==
    /\ w_pc = "walk"
    /\ w_tool \in WalkerTools \cup {"download"}
    /\ w_include \in SUBSET SegNames
    /\ w_exclude \in SUBSET SegNames
    /\ w_filedirs \in {F \in SUBSET DirPaths : Cardinality(F) <= MaxTreeFiles}
    /\ w_stack \in IF w_tool = "download" THEN Orderings(w_filedirs) ELSE {<<<<>>>>}
    /\ w_visited = {}
    /\ w_processed = {}
    /\ w_inc_rejected = {}

WalkOff ==
    /\ w_pc = "off"
    /\ w_tool = "stats"
    /\ w_include = {}
    /\ w_exclude = {}
    /\ w_filedirs = {}
    /\ w_stack = <<>>
    /\ w_visited = {}
    /\ w_processed = {}
    /\ w_inc_rejected = {}

\* os.walk yields the next directory; the walker's loop body runs on it
WalkVisit ==
    /\ w_pc = "walk"
    /\ w_tool \in WalkerTools
    /\ w_stack # <<>>
    /\ LET d == Head(w_stack)
           v == Visit(w_tool, d, d \in w_filedirs, w_include, w_exclude)
       IN /\ w_visited' = w_visited \cup {d}
          /\ w_processed' = IF v.processed THEN w_processed \cup {d} ELSE w_processed
          /\ w_inc_rejected' = IF v.inc_rejected THEN w_inc_rejected \cup {d}
                               ELSE w_inc_rejected
          /\ \E below \in Orderings(IF v.descend THEN Children(w_filedirs, d) ELSE {}) :
                w_stack' = below \o Tail(w_stack)
    /\ UNCHANGED <<w_pc, w_tool, w_include, w_exclude, w_filedirs>>
    /\ UNCHANGED <<stats_vars, commute_vars, tool_vars, parse_vars, extract_vars, format_vars, summary_vars, download_vars, bucket_vars>>

\* download_data.py download_s3_objects (lines 110-124): the next listed object
DownloadObject ==
    /\ w_pc = "walk"
    /\ w_tool = "download"
    /\ w_stack # <<>>
    /\ LET d == Head(w_stack)
           parts == PartsOf(d)
           skip == ShouldExcludeKey(parts, w_exclude, w_include)
       IN /\ w_visited' = w_visited \cup {d}
          /\ w_processed' = IF skip THEN w_processed ELSE w_processed \cup {d}
          /\ w_inc_rejected' =
                IF skip /\ ~(w_exclude # {} /\ AnyIn(parts, w_exclude))
                THEN w_inc_rejected \cup {d} ELSE w_inc_rejected
    /\ w_stack' = Tail(w_stack)
    /\ UNCHANGED <<w_pc, w_tool, w_include, w_exclude, w_filedirs>>
    /\ UNCHANGED <<stats_vars, commute_vars, tool_vars, parse_vars, extract_vars, format_vars, summary_vars, download_vars, bucket_vars>>

WalkEnd ==
    /\ w_pc = "walk"
    /\ w_stack = <<>>
    /\ w_pc' = "done"
    /\ UNCHANGED <<w_tool, w_include, w_exclude, w_filedirs, w_stack, w_visited,
                   w_processed, w_inc_rejected>>
    /\ UNCHANGED <<stats_vars, commute_vars, tool_vars, parse_vars, extract_vars, format_vars, summary_vars, download_vars, bucket_vars>>

\* ------------------------------------------------------ parse_file_path
\* A file name is a sequence of tokens: "date" is a run of 8 digits (year,
\* month, day as written), "time" a run of 4 digits (hour, minute), "num" any
\* other run of digits, "us" an underscore, "txt" text without digits or
\* underscore, "ext" the suffix ".csv.gz".
NoValue == <<>>
Tok(t, v) == [t |-> t, v |-> v]

DateDigits == {<<2023, 8, 14>>, <<2023, 13, 14>>, <<2023, 2, 30>>}
TimeDigits == {<<9, 30>>, <<25, 30>>}

\* 20230814_0930.csv.gz
PlainName(dv, tv) ==
    <<Tok("date", dv), Tok("us", NoValue), Tok("time", tv), Tok("ext", NoValue)>>

\* 20230814_0930_2.csv.gz
IndexedName(dv, tv) ==
    <<Tok("date", dv), Tok("us", NoValue), Tok("time", tv), Tok("us", NoValue),
      Tok("num", NoValue), Tok("ext", NoValue)>>

\* copy-20230814_0930.csv.gz and 720230814_0930.csv.gz
PrefixedName(lead, dv, tv) == <<Tok(lead, NoValue)>> \o PlainName(dv, tv)

\* 202308140930.csv.gz
JoinedName(dv, tv) == <<Tok("date", dv), Tok("time", tv), Tok("ext", NoValue)>>

\* 20230814_0930-copy.csv.gz
TrailedName(dv, tv) ==
    <<Tok("date", dv), Tok("us", NoValue), Tok("time", tv), Tok("txt", NoValue),
      Tok("ext", NoValue)>>

\* data.csv.gz
TextName == <<Tok("txt", NoValue), Tok("ext", NoValue)>>

\* the names main hands to parse_file_path: they end in .csv.gz (line 283)
FileNames ==
    {TextName}
    \cup {PlainName(dv, tv) : dv \in DateDigits, tv \in TimeDigits}
    \cup {IndexedName(dv, tv) : dv \in DateDigits, tv \in TimeDigits}
    \cup {PrefixedName(lead, dv, tv) :
             lead \in {"txt", "num"}, dv \in DateDigits, tv \in TimeDigits}
    \cup {JoinedName(dv, tv) : dv \in DateDigits, tv \in TimeDigits}
    \cup {TrailedName(dv, tv) : dv \in DateDigits, tv \in TimeDigits}

\* the tokens from the i-th on
Suffix(name, i) == SubSeq(name, i, Len(name))

\* \d{8}_\d{4}\.csv\.gz with no optional index (mutant of MatchesPattern)
MatchesPatternNoIndex(s) ==
    /\ Len(s) = 4
    /\ s[1].t = "date" /\ s[2].t = "us" /\ s[3].t = "time" /\ s[4].t = "ext"

\* (\d{8}_\d{4})(?:_\d+)?\.csv\.gz over a whole token sequence
MatchesPattern(s) ==
    /\ Len(s) \in {4, 6}
    /\ s[1].t = "date" /\ s[2].t = "us" /\ s[3].t = "time"
    /\ \/ Len(s) = 4 /\ s[4].t = "ext"
       \/ Len(s) = 6 /\ s[4].t = "us" /\ s[5].t = "num" /\ s[6].t = "ext"

NoMatch == <<>>

\* re.search(r'(\d{8}_\d{4})(?:_\d+)?\.csv\.gz$', filename): the pattern is tied
\* to the end of the name and free at its start; the result is group(1), as
\* <<date digits, time digits>>, or NoMatch
ReSearch(name) ==
    LET starts == {i \in DOMAIN name : MatchesPattern(Suffix(name, i))}
    IN IF starts = {} THEN NoMatch
       ELSE <<name[Min(starts)].v, name[Min(starts) + 1 + 1].v>>

IsLeap(y) == (y % 4 = 0 /\ y % 100 # 0) \/ y % 400 = 0

DaysIn(y, m) ==
    IF m = 2 THEN (IF IsLeap(y) THEN 29 ELSE 28)
    ELSE IF m \in {4, 6, 9, 11} THEN 30 ELSE 31

\* datetime.strptime(ts_str, '%Y%m%d_%H%M') raises ValueError unless this holds
StrptimeOk(dv, tv) ==
    /\ dv[1] >= 1
    /\ dv[2] \in 1..12
    /\ dv[3] \in 1..DaysIn(dv[1], dv[2])
    /\ tv[1] \in 0..23
    /\ tv[2] \in 0..59

\* the datetime it returns, as <<year, month, day, hour, minute>>
Strptime(dv, tv) == <<dv[1], dv[2], dv[3], tv[1], tv[2]>>

NoTimestamp == <<>>
NoFileInfo ==
    [ok |-> FALSE, site |-> 0, participant |-> 0, metric |-> 0, timestamp |-> NoTimestamp]

\* a name that does not match classifies nothing (mutant of ParseFilePath)
ParseFilePathStrict(path_parts, name) ==
    IF Len(path_parts) < MinParts \/ ReSearch(name) = NoMatch THEN NoFileInfo
    ELSE [ok |-> TRUE, site |-> path_parts[2], participant |-> path_parts[3],
          metric |-> path_parts[4],
          timestamp |-> IF StrptimeOk(ReSearch(name)[1], ReSearch(name)[2])
                        THEN Strptime(ReSearch(name)[1], ReSearch(name)[2])
                        ELSE NoTimestamp]

\* site, participant, metric counted from the file name upwards (mutant of
\* ParseFilePath)
ParseFilePathFromEnd(path_parts, name) ==
    IF Len(path_parts) < MinParts THEN NoFileInfo
    ELSE [ok |-> TRUE, site |-> path_parts[Len(path_parts) - 3],
          participant |-> path_parts[Len(path_parts) - 2],
          metric |-> path_parts[Len(path_parts) - 1],
          timestamp |-> IF ReSearch(name) # NoMatch
                           /\ StrptimeOk(ReSearch(name)[1], ReSearch(name)[2])
                        THEN Strptime(ReSearch(name)[1], ReSearch(name)[2])
                        ELSE NoTimestamp]

\* process-overview.py parse_file_path (lines 35-69); Python's path_parts[1],
\* [2], [3] are the 2nd, 3rd and 4th part
ParseFilePath(path_parts, name) ==
    IF Len(path_parts) < MinParts THEN NoFileInfo
    ELSE [ok |-> TRUE, site |-> path_parts[2], participant |-> path_parts[3],
          metric |-> path_parts[4],
          timestamp |-> IF ReSearch(name) # NoMatch
                           /\ StrptimeOk(ReSearch(name)[1], ReSearch(name)[2])
                        THEN Strptime(ReSearch(name)[1], ReSearch(name)[2])
                        ELSE NoTimestamp]

\* merge-data.py parse_file_path (lines 17-52)
MergeParseFilePath(path_parts, name) ==
    IF Len(path_parts) < MinParts THEN NoFileInfo
    ELSE IF ReSearch(name) = NoMatch THEN NoFileInfo
    ELSE IF ~StrptimeOk(ReSearch(name)[1], ReSearch(name)[2]) THEN NoFileInfo
    ELSE [ok |-> TRUE, site |-> path_parts[2], participant |-> path_parts[3],
          metric |-> path_parts[4],
          timestamp |-> Strptime(ReSearch(name)[1], ReSearch(name)[2])]

\* directories of the parsed file, relative to input_dir: from input_dir itself
\* down to one level below the metric directory
ParseDirs == UNION {[1..n -> SegNames] : n \in 0..(MinParts + 1)}

\* what the parsed file holds: one row, no device column
ParsedFileContent ==
    [ok |-> TRUE, has_device |-> FALSE, rows |-> <<[time |-> 5, device |-> NoDevice]>>]

\* the store before the file: empty, or with the key <<1, 2, 1>> already there
ParseStores ==
    {<<>>,
     <<[key |-> <<1, 2, 1>>,
        acc |-> [row_count |-> 1, start_date |-> 1, end_date |-> 2, day_set |-> {1}]]>>}

ParseInit ==
    /\ p_pc = "file"
    /\ p_dirs \in ParseDirs
    /\ p_name \in FileNames
    /\ p_info = NoFileInfo
    /\ p_minfo = NoFileInfo
    /\ p_handed = FALSE
    /\ p_store0 \in ParseStores
    /\ p_store = p_store0

ParseOff ==
    /\ p_pc = "off"
    /\ p_dirs = <<>>
    /\ p_name = TextName
    /\ p_info = NoFileInfo
    /\ p_minfo = NoFileInfo
    /\ p_handed = FALSE
    /\ p_store0 = <<>>
    /\ p_store = <<>>

\* the two parsers on the same path
ParseFile ==
    /\ p_pc = "file"
    /\ p_info' = ParseFilePath(PartsOf(p_dirs), p_name)
    /\ p_minfo' = MergeParseFilePath(PartsOf(p_dirs), p_name)
    /\ p_pc' = "parsed"
    /\ UNCHANGED <<p_dirs, p_name, p_handed, p_store0, p_store>>
    /\ UNCHANGED <<stats_vars, commute_vars, tool_vars, walk_vars, extract_vars, format_vars, summary_vars, download_vars, bucket_vars>>

\* process-overview.py main (lines 280-324) for the directory of the file, with
\* no --include and no --exclude
StatsLoopBody ==
    /\ p_pc = "parsed"
    /\ LET handed == p_info.ok /\ FilePassesIncludeExclude(PartsOf(p_dirs), {}, {})
           directory_rows ==
               IF handed
               THEN <<Fact(<<p_info.site, p_info.participant>>, p_info.metric,
                           Len(ParsedFileContent.rows), ParsedFileContent)>>
               ELSE <<>>
       IN /\ p_handed' = handed
          /\ p_store' = MergeDirectoryStats(p_store0, directory_rows)
    /\ p_pc' = "done"
    /\ UNCHANGED <<p_dirs, p_name, p_info, p_minfo, p_store0>>
    /\ UNCHANGED <<stats_vars, commute_vars, tool_vars, walk_vars, extract_vars, format_vars, summary_vars, download_vars, bucket_vars>>

\* ------------------------------------- gather_file_stats, with its try block
\* Where an exception is raised inside the try block of gather_file_stats
\* (lines 106-161): nowhere; while the time column is interpreted (lines
\* 111-126), before any fact exists; or in the loop over the device groups
\* (lines 137-150), when `after` facts have been appended to results.  A file
\* that cannot be opened or read (lines 107-108) is a file with ok = FALSE.
NoRaise == [at |-> "none", after |-> 0]

RaisePoints(file) ==
    {NoRaise, [at |-> "time", after |-> 0]}
    \cup {[at |-> "loop", after |-> k] : k \in 0..(Len(GatherFileStats(<<1, 2>>, file)) - 1)}

Failed(file, raise) == ~file.ok \/ raise.at # "none"

\* gather_file_stats (lines 103-166): results is filled inside the try block
\* and returned after the except clause, as far as it got
GatherFileStatsRaising(file_root, file, raise) ==
    IF ~file.ok \/ raise.at = "time" THEN <<>>
    ELSE IF raise.at = "loop"
    THEN SubSeq(GatherFileStats(file_root, file), 1, raise.after)
    ELSE GatherFileStats(file_root, file)

ExtractRoot == <<1, 2>>

\* the store before the file: empty, or with the file's undecorated key there
ExtractStores ==
    {<<>>,
     <<[key |-> <<1, 2, MetricName(MetricBase, NoDevice)>>,
        acc |-> [row_count |-> 1, start_date |-> 2, end_date |-> 2, day_set |-> {1}]]>>}

ExtractInit ==
    /\ x_pc = "file"
    /\ x_file \in FileContents
    /\ x_raise \in RaisePoints(x_file)
    /\ x_results = <<>>
    /\ x_store0 \in ExtractStores
    /\ x_store = x_store0

ExtractOff ==
    /\ x_pc = "off"
    /\ x_file = [ok |-> FALSE, has_device |-> FALSE, rows |-> <<>>]
    /\ x_raise = NoRaise
    /\ x_results = <<>>
    /\ x_store0 = <<>>
    /\ x_store = <<>>

\* line 297: the call returns, whatever was raised inside it (lines 163-166)
GatherFile ==
    /\ x_pc = "file"
    /\ x_results' = GatherFileStatsRaising(ExtractRoot, x_file, x_raise)
    /\ x_pc' = "gathered"
    /\ UNCHANGED <<x_file, x_raise, x_store0, x_store>>
    /\ UNCHANGED <<stats_vars, commute_vars, tool_vars, walk_vars, parse_vars, format_vars, summary_vars, download_vars, bucket_vars>>

\* lines 298-324: the facts of the file go into directory_stats, and from
\* there into the store when the directory is done
MergeFile ==
    /\ x_pc = "gathered"
    /\ x_store' = MergeDirectoryStats(x_store0, x_results)
    /\ x_pc' = "merged"
    /\ UNCHANGED <<x_file, x_raise, x_results, x_store0>>
    /\ UNCHANGED <<stats_vars, commute_vars, tool_vars, walk_vars, parse_vars, format_vars, summary_vars, download_vars, bucket_vars>>

\* ------------------------------------------------- the output format
\* What a caller can pass as output_format: the two formats the tools know and
\* one they do not.
Formats == {"csv", "parquet", "json"}

\* An artifact name is <<stem, extension>>.  The stem is a site or AllSites for
\* the stats engine, the metric for the merge engines.
AllSites == 0
NoFiles == <<>>       \* an empty output directory

\* the directory after to_csv / to_parquet of the artifacts in written, a
\* function from their names to their contents
WriteFiles(files, written) ==
    [n \in DOMAIN files \cup DOMAIN written |->
        IF n \in DOMAIN written THEN written[n] ELSE files[n]]

\* process-overview.py lines 232-239 and 242-249: csv, else parquet
StatsExtension(output_format) ==
    IF output_format = "csv" THEN "csv.gz" ELSE "parquet"

\* write_stats_per_site_and_all (lines 196-249): the output directory afterwards
WriteStatsPerSiteAndAll(files, store, output_format) ==
    IF store = <<>> THEN files
    ELSE LET frame == SortValues(BuildRows(store))
             ext == StatsExtension(output_format)
             names == {<<s, ext>> : s \in Range(UniqueSites(frame)) \cup {AllSites}}
             written == [n \in names |->
                            IF n[1] = AllSites THEN frame ELSE SiteRows(frame, n[1])]
         IN WriteFiles(files, written)

\* merge-data.py process_metric (lines 54-100): the output directory afterwards
MergeProcessMetric(files, metric_files, metric, output_format, update) ==
    IF output_format \notin {"csv", "parquet"} THEN files
    ELSE LET name == <<metric, IF output_format = "csv" THEN "csv.gz" ELSE "parquet">>
             before == IF name \in DOMAIN files THEN files[name] ELSE NoArtifact
             out == ProcessMetricOut(metric_files, metric, before, update)
         IN IF out = NoArtifact THEN files ELSE WriteFiles(files, [n \in {name} |-> out])

\* collect_data_metadata.py process_metric (lines 65-117): the output directory
\* afterwards.  os.makedirs (line 100) has made the directory by the time the
\* format is looked at; a directory is not an artifact.
CollectProcessMetric(files, metric_files, metric, output_format) ==
    LET frames == DataFrames(metric, metric_files)
    IN IF frames = <<>> THEN files
       ELSE IF output_format = "csv"
       THEN WriteFiles(files, [n \in {<<metric, "csv.gz">>} |-> frames])
       ELSE IF output_format = "parquet"
       THEN WriteFiles(files, [n \in {<<metric, "parquet">>} |-> frames])
       ELSE files

\* the stores handed to the stats writer: empty, one site, two sites
FormatStores ==
    {<<>>,
     <<[key |-> <<1, 1, 1>>,
        acc |-> [row_count |-> 1, start_date |-> 1, end_date |-> 2, day_set |-> {1}]]>>,
     <<[key |-> <<2, 1, 1>>,
        acc |-> [row_count |-> 2, start_date |-> 1, end_date |-> 5, day_set |-> {1, 3}]],
       [key |-> <<1, 1, 1>>,
        acc |-> [row_count |-> 1, start_date |-> 1, end_date |-> 2, day_set |-> {1}]]>>}

\* the files of a metric handed to the merge engines: none, one unreadable,
\* one readable, two readable
FormatMetricFiles ==
    {<<>>,
     <<[timestamp |-> 1, data |-> 1, readable |-> FALSE]>>,
     <<[timestamp |-> 1, data |-> 1, readable |-> TRUE]>>,
     <<[timestamp |-> 1, data |-> 1, readable |-> TRUE],
       [timestamp |-> 2, data |-> 2, readable |-> TRUE]>>}

FormatInit ==
    /\ o_pc = "idle"
    /\ o_tool \in {"stats", "merge", "collect"}
    /\ o_format = "csv"
    /\ o_before = NoFiles
    /\ o_disk = NoFiles

FormatOff ==
    /\ o_pc = "off"
    /\ o_tool = "none"
    /\ o_format = "csv"
    /\ o_before = NoFiles
    /\ o_disk = NoFiles

\* process-overview.py: one call of write_stats_per_site_and_all
WriteStats ==
    /\ o_pc \in {"idle", "written"}
    /\ o_tool = "stats"
    /\ \E store \in FormatStores, output_format \in Formats :
          /\ o_disk' = WriteStatsPerSiteAndAll(o_disk, store, output_format)
          /\ o_format' = output_format
    /\ o_before' = o_disk
    /\ o_pc' = "written"
    /\ UNCHANGED o_tool
    /\ UNCHANGED <<stats_vars, commute_vars, tool_vars, walk_vars, parse_vars, extract_vars, summary_vars, download_vars, bucket_vars>>

\* merge-data.py: one call of process_metric
WriteMerged ==
    /\ o_pc \in {"idle", "written"}
    /\ o_tool = "merge"
    /\ \E metric_files \in FormatMetricFiles, metric \in ToolKeys,
          output_format \in Formats, update \in BOOLEAN :
          /\ o_disk' = MergeProcessMetric(o_disk, metric_files, metric, output_format, update)
          /\ o_format' = output_format
    /\ o_before' = o_disk
    /\ o_pc' = "written"
    /\ UNCHANGED o_tool
    /\ UNCHANGED <<stats_vars, commute_vars, tool_vars, walk_vars, parse_vars, extract_vars, summary_vars, download_vars, bucket_vars>>

\* collect_data_metadata.py: one call of process_metric
WriteCollected ==
    /\ o_pc \in {"idle", "written"}
    /\ o_tool = "collect"
    /\ \E metric_files \in FormatMetricFiles, metric \in ToolKeys, output_format \in Formats :
          /\ o_disk' = CollectProcessMetric(o_disk, metric_files, metric, output_format)
          /\ o_format' = output_format
    /\ o_before' = o_disk
    /\ o_pc' = "written"
    /\ UNCHANGED o_tool
    /\ UNCHANGED <<stats_vars, commute_vars, tool_vars, walk_vars, parse_vars, extract_vars, summary_vars, download_vars, bucket_vars>>

\* ------------------------------------------- extract_patient_summary.py
\* A cell of a value column: a number, a text that float() refuses, or an
\* empty cell, which pandas reads as the float NaN.
Num(v) == [k |-> "num", v |-> v]
TextCell == [k |-> "str", v |-> 0]
NaNCell == [k |-> "nan", v |-> 0]
Cells == {Num(1), Num(2), TextCell, NaNCell}

NaN == -1             \* the float nan in a list of values

\* float(value) (lines 107, 335) succeeds
FloatOk(cell) == cell.k # "str"
\* float(value)
Float(cell) == IF cell.k = "nan" THEN NaN ELSE cell.v
\* str(response) (line 374)
Str(cell) == <<cell.k, cell.v>>

\* get_time_key (lines 93-102): a month holds two days, a year all of them
Resolutions == {"month", "year"}
GetTimeKey(dt, resolution) ==
    IF resolution = "month" THEN (Day(dt) + 1) \div 2 ELSE 1

\* The metric directory of the file's path, as letters: the feature data are
\* under "a" or "ab", the questionnaire answers under "c".  The other
\* segments of the path hold none of these letters.
FeatureDirs == {<<1>>, <<1, 2>>}
QuestionnaireDir == <<3>>

\* questionId cells: "a", "ab", "b"
QuestionIds == {<<1>>, <<1, 2>>, <<2>>}
NoQuestion == <<>>

\* A row.  A feature file has the columns time, key and value; a
\* questionnaire file the columns questionId, value, StartTime and EndTime
\* (one answers.N group a row).  The columns a file does not have are fixed.
FeatureRowValues ==
    [time : {1, 3, 5, NaT}, key : {1, 2}, value : Cells,
     questionId : {NoQuestion}, StartTime : {NaT}, EndTime : {NaT}]
QuestionnaireRowValues ==
    [time : {NaT}, key : {0}, value : {Num(1), TextCell},
     questionId : QuestionIds, StartTime : {1, NaT}, EndTime : {5, NaT}]

SummaryParticipant == 2

SummaryFiles ==
    {f \in [participant : {SummaryParticipant}, dir : FeatureDirs, ok : BOOLEAN,
            rows : UNION {[1..n -> FeatureRowValues] : n \in RowCounts}] :
        ~f.ok => f.rows = <<>>}
    \cup
    {f \in [participant : {SummaryParticipant}, dir : {QuestionnaireDir}, ok : BOOLEAN,
            rows : UNION {[1..n -> QuestionnaireRowValues] : n \in RowCounts}] :
        ~f.ok => f.rows = <<>>}

\* parse_feature_flag (lines 34-57): filter_value 0 is the five-part form
FeatureDef(name, source, filter_value) ==
    [feature |-> name, source |-> source, filter_value |-> filter_value]

\* feature_defs, in the order of the command line (a dict keeps it)
FeatureConfigs ==
    {<<>>,
     <<FeatureDef(1, <<1>>, 0)>>,
     <<FeatureDef(1, <<1>>, 1), FeatureDef(2, <<1>>, 2)>>,
     <<FeatureDef(1, <<1, 2>>, 0), FeatureDef(2, <<1>>, 0)>>}

\* parse_questionnaire_slider / parse_questionnaire_histogram (lines 65-91)
SliderConfigs ==
    {<<>>} \cup
    {<<[domain |-> 1, file_filter |-> QuestionnaireDir, target_prefix |-> p,
        time_suffix |-> t]>> : p \in {<<1>>, <<2>>}, t \in {"StartTime", "EndTime"}}
HistogramConfigs ==
    {<<>>} \cup
    {<<[domain |-> 2, file_filter |-> QuestionnaireDir, target_questionid |-> <<1>>,
        time_suffix |-> t]>> : t \in {"StartTime", "EndTime"}}
\* parse_questionnaire_flag (lines 59-63); <<>> is None
QuestionnaireConfigs ==
    {<<>>, <<[file_filter |-> QuestionnaireDir, time_field |-> "StartTime"]>>}

\* the configurations tried on a file: the feature ones on feature files, the
\* questionnaire ones on questionnaire files
SummaryConfigs(file) ==
    IF file.dir = QuestionnaireDir
    THEN [feature_defs : {<<>>, <<FeatureDef(1, <<1>>, 0)>>},
          questionnaire_def : QuestionnaireConfigs,
          questionnaire_slider_defs : SliderConfigs,
          questionnaire_histogram_defs : HistogramConfigs,
          time_resolution : Resolutions]
    ELSE [feature_defs : FeatureConfigs,
          questionnaire_def : {<<>>},
          questionnaire_slider_defs : {<<>>},
          questionnaire_histogram_defs : {<<>>},
          time_resolution : Resolutions]

\* ---- the summary records
NoStat == <<>>        \* None of a statistic
NaNStat == <<0, 0>>   \* the float nan of a statistic

EmptySummary == [total_entries |-> 0, days |-> {}, values |-> <<>>]

\* the default of summary_data (lines 218-235)
NewSummaryRecord(feature_defs) ==
    [patient_id |-> None, site |-> None,
     features_available |-> {},
     feature_statistics |->
        [f \in {feature_defs[i].feature : i \in DOMAIN feature_defs} |-> EmptySummary],
     total_responses |-> 0,
     days |-> {},
     slider |-> <<>>,
     histogram |-> <<>>]

\* summary_data[key], which makes the record when the key is new
RecordOf(data, key, feature_defs) ==
    IF key \in DOMAIN data THEN data[key] ELSE NewSummaryRecord(feature_defs)

SetRecord(data, key, rec) ==
    [k \in DOMAIN data \cup {key} |-> IF k = key THEN rec ELSE data[k]]

\* the entry of a defaultdict, which makes it when it is new
EntryOf(dict, k, default) == IF k \in DOMAIN dict THEN dict[k] ELSE default

SetEntry(dict, k, v) ==
    [j \in DOMAIN dict \cup {k} |-> IF j = k THEN v ELSE dict[j]]

\* total_entries counts the numeric values only (mutant of UpdateSummary)
UpdateSummaryNumericOnly(summary, dt, value) ==
    IF ~FloatOk(value) THEN summary
    ELSE [summary EXCEPT !.total_entries = @ + 1,
                         !.values = Append(@, Float(value)),
                         !.days = @ \cup {Day(dt)}]

\* update_summary (lines 104-112)
UpdateSummary(summary, dt, value) ==
    LET counted == [summary EXCEPT !.total_entries = @ + 1]
    IN IF ~FloatOk(value) THEN counted
       ELSE [counted EXCEPT !.values = Append(@, Float(value)),
                            !.days = @ \cup {Day(dt)}]

\* ---- compute_stats
RECURSIVE GCD(_, _)
GCD(a, b) == IF b = 0 THEN a ELSE GCD(b, a % b)

\* the float a / b, as a fraction in lowest terms
Frac(a, b) == <<a \div GCD(a, b), b \div GCD(a, b)>>

RECURSIVE InsertValue(_, _)
InsertValue(sorted, v) ==
    IF sorted = <<>> THEN <<v>>
    ELSE IF v <= Head(sorted) THEN <<v>> \o sorted
    ELSE <<Head(sorted)>> \o InsertValue(Tail(sorted), v)

RECURSIVE SortedValues(_)
SortedValues(values) ==
    IF values = <<>> THEN <<>> ELSE InsertValue(SortedValues(Tail(values)), Head(values))

AllStats(x) == [mean |-> x, median |-> x, std_dev |-> x, min |-> x, max |-> x]

\* numpy on the values (lines 117-118).  std_dev is written as its square, the
\* variance: np.std is the root of it.
NumpyStats(values) ==
    LET n == Len(values)
        total == SumSeq(values)
        squares == SumSeq([i \in DOMAIN values |-> values[i] * values[i]])
        sorted == SortedValues(values)
    IN IF NaN \in Range(values) THEN AllStats(NaNStat)
       ELSE [mean |-> Frac(total, n),
             median |-> IF n % 2 = 1 THEN Frac(sorted[(n + 1) \div 2], 1)
                        ELSE Frac(sorted[n \div 2] + sorted[n \div 2 + 1], 2),
             std_dev |-> Frac(n * squares - total * total, n * n),
             min |-> Frac(sorted[1], 1),
             max |-> Frac(sorted[n], 1)]

\* the empty list goes to numpy as well, whose mean of nothing is nan (mutant
\* of ComputeStats)
ComputeStatsUnguarded(values) ==
    IF values = <<>> THEN AllStats(NaNStat) ELSE NumpyStats(values)

\* compute_stats (lines 114-118)
ComputeStats(values) ==
    IF values = <<>> THEN AllStats(NoStat) ELSE NumpyStats(values)

\* ---- the feature path
\* process_csv_file (lines 120-140): the rows left, <<>> also for None
ProcessCsvFile(file, feat_def) ==
    IF ~file.ok THEN <<>>
    ELSE LET kept == IF feat_def.filter_value # 0
                     THEN SelectSeq(file.rows, LAMBDA r : r.key = feat_def.filter_value)
                     ELSE file.rows
         IN SelectSeq(kept, LAMBDA r : r.time # NaT)

\* the row loop of a feature (lines 275-282)
RECURSIVE FoldFeatureRows(_, _, _, _, _)
FoldFeatureRows(data, df, feat_name, file, cfg) ==
    IF df = <<>> THEN data
    ELSE LET row == Head(df)
             key == <<file.participant, GetTimeKey(row.time, cfg.time_resolution)>>
             rec == RecordOf(data, key, cfg.feature_defs)
             new == [rec EXCEPT !.patient_id = file.participant,
                                !.site = file.participant,
                                !.features_available = @ \cup {feat_name},
                                !.feature_statistics[feat_name] =
                                    UpdateSummary(@, row.time, row.value)]
         IN FoldFeatureRows(SetRecord(data, key, new), Tail(df), feat_name, file, cfg)

\* the loop over feature_defs (lines 265-284): the first definition whose
\* source is in the path takes the file, and break ends the loop
RECURSIVE FeatureLoop(_, _, _, _)
FeatureLoop(data, defs, file, cfg) ==
    IF defs = <<>> THEN data
    ELSE IF IsSubstring(Head(defs).source, file.dir)
         THEN FoldFeatureRows(data, ProcessCsvFile(file, Head(defs)),
                              Head(defs).feature, file, cfg)
         ELSE FeatureLoop(data, Tail(defs), file, cfg)

\* ---- the questionnaire paths
\* the row loop of the simple questionnaire (lines 294-301)
RECURSIVE FoldResponses(_, _, _, _, _)
FoldResponses(data, df, time_field, file, cfg) ==
    IF df = <<>> THEN data
    ELSE LET row == Head(df)
             key == <<file.participant, GetTimeKey(row[time_field], cfg.time_resolution)>>
             rec == RecordOf(data, key, cfg.feature_defs)
             new == [rec EXCEPT !.patient_id = file.participant,
                                !.site = file.participant,
                                !.total_responses = @ + 1,
                                !.days = @ \cup {Day(row[time_field])}]
         IN FoldResponses(SetRecord(data, key, new), Tail(df), time_field, file, cfg)

\* lines 287-304
SimpleQuestionnaire(data, file, cfg) ==
    IF cfg.questionnaire_def = <<>> THEN data
    ELSE LET def == cfg.questionnaire_def[1]
         IN IF ~IsSubstring(def.file_filter, file.dir) \/ ~file.ok THEN data
            ELSE FoldResponses(data,
                               SelectSeq(file.rows, LAMBDA r : r[def.time_field] # NaT),
                               def.time_field, file, cfg)

\* the row loop of one slider definition (lines 312-339)
RECURSIVE FoldSliderRows(_, _, _, _, _)
FoldSliderRows(data, rows, qs_def, file, cfg) ==
    IF rows = <<>> THEN data
    ELSE LET row == Head(rows)
             dt == row[qs_def.time_suffix]
             key == <<file.participant, GetTimeKey(dt, cfg.time_resolution)>>
             rec == RecordOf(data, key, cfg.feature_defs)
             new == [rec EXCEPT !.patient_id = file.participant,
                                !.site = file.participant,
                                !.slider = SetEntry(@, qs_def.domain,
                                    UpdateSummary(EntryOf(@, qs_def.domain, EmptySummary),
                                                  dt, row.value))]
         IN IF IsPrefix(qs_def.target_prefix, row.questionId) /\ dt # NaT
            THEN FoldSliderRows(SetRecord(data, key, new), Tail(rows), qs_def, file, cfg)
            ELSE FoldSliderRows(data, Tail(rows), qs_def, file, cfg)

\* the loop over questionnaire_slider_defs (lines 307-342)
RECURSIVE SliderLoop(_, _, _, _)
SliderLoop(data, defs, file, cfg) ==
    IF defs = <<>> THEN data
    ELSE LET after == IF IsSubstring(Head(defs).file_filter, file.dir) /\ file.ok
                      THEN FoldSliderRows(data, file.rows, Head(defs), file, cfg)
                      ELSE data
         IN SliderLoop(after, Tail(defs), file, cfg)

\* qs_def when the slider loop is over: its last definition; the name is not
\* bound when the list is empty
NotBound == <<>>
BoundSliderDef(cfg) ==
    IF cfg.questionnaire_slider_defs = <<>> THEN NotBound
    ELSE <<cfg.questionnaire_slider_defs[Len(cfg.questionnaire_slider_defs)]>>

\* the row loop of one histogram definition (lines 351-374): the data and
\* whether the loop was left by an exception.  time_col is read from qs_def
\* (line 359), which raises NameError when the name is not bound.
RECURSIVE FoldHistogramRows(_, _, _, _, _)
FoldHistogramRows(data, rows, qh_def, file, cfg) ==
    IF rows = <<>> THEN [data |-> data, raised |-> FALSE]
    ELSE LET row == Head(rows) IN
         IF row.questionId # qh_def.target_questionid
         THEN FoldHistogramRows(data, Tail(rows), qh_def, file, cfg)
         ELSE IF BoundSliderDef(cfg) = NotBound THEN [data |-> data, raised |-> TRUE]
         ELSE LET dt == row[BoundSliderDef(cfg)[1].time_suffix]
                  key == <<file.participant, GetTimeKey(dt, cfg.time_resolution)>>
                  rec == RecordOf(data, key, cfg.feature_defs)
                  counter == <<qh_def.domain, row.questionId, Str(row.value)>>
                  new == [rec EXCEPT !.histogram =
                              SetEntry(@, counter, EntryOf(@, counter, 0) + 1)]
              IN IF dt = NaT
                 THEN FoldHistogramRows(data, Tail(rows), qh_def, file, cfg)
                 ELSE FoldHistogramRows(SetRecord(data, key, new), Tail(rows),
                                        qh_def, file, cfg)

\* the loop over questionnaire_histogram_defs (lines 345-377)
RECURSIVE HistogramLoop(_, _, _, _)
HistogramLoop(state, defs, file, cfg) ==
    IF defs = <<>> THEN state
    ELSE LET after ==
                IF ~IsSubstring(Head(defs).file_filter, file.dir) THEN state
                ELSE IF ~file.ok THEN [state EXCEPT !.raised = TRUE]
                ELSE LET r == FoldHistogramRows(state.data, file.rows, Head(defs), file, cfg)
                     IN [data |-> r.data, raised |-> state.raised \/ r.raised]
         IN HistogramLoop(after, Tail(defs), file, cfg)

\* ---- the documents
\* lines 400-408 and 419-427
FinalStats(summary) ==
    LET st == ComputeStats(summary.values)
    IN [total_entries |-> summary.total_entries,
        days_with_data |-> Cardinality(summary.days),
        mean |-> st.mean, median |-> st.median, std_dev |-> st.std_dev,
        min |-> st.min, max |-> st.max]

\* lines 381-430: the document of one record
Document(rec) ==
    LET all_days == UNION {rec.feature_statistics[f].days : f \in DOMAIN rec.feature_statistics}
    IN [patient_id |-> rec.patient_id,
        site |-> rec.site,
        start_date |-> IF all_days # {} THEN Min(all_days) ELSE None,
        end_date |-> IF all_days # {} THEN Max(all_days) ELSE None,
        total_days_with_data |-> Cardinality(all_days),
        features_available |-> SetToSortedSeq(rec.features_available),
        feature_statistics |->
            [f \in DOMAIN rec.feature_statistics |-> FinalStats(rec.feature_statistics[f])],
        total_responses |-> rec.total_responses,
        days_with_responses |-> Cardinality(rec.days),
        slider |-> [d \in DOMAIN rec.slider |-> FinalStats(rec.slider[d])],
        histogram |-> rec.histogram]

NoSummaryFile ==
    [participant |-> 0, dir |-> <<>>, ok |-> FALSE, rows |-> <<>>]
NoSummaryConfig ==
    [feature_defs |-> <<>>, questionnaire_def |-> <<>>, questionnaire_slider_defs |-> <<>>,
     questionnaire_histogram_defs |-> <<>>, time_resolution |-> "month"]

SummaryInit ==
    /\ s_pc = "features"
    /\ s_file \in SummaryFiles
    /\ s_cfg \in SummaryConfigs(s_file)
    /\ s_data = <<>>
    /\ s_docs = <<>>
    /\ s_raised = {}

SummaryOff ==
    /\ s_pc = "off"
    /\ s_file = NoSummaryFile
    /\ s_cfg = NoSummaryConfig
    /\ s_data = <<>>
    /\ s_docs = <<>>
    /\ s_raised = {}

\* lines 264-284
ProcessFeatures ==
    /\ s_pc = "features"
    /\ s_data' = FeatureLoop(s_data, s_cfg.feature_defs, s_file, s_cfg)
    /\ s_pc' = "questionnaire"
    /\ UNCHANGED <<s_cfg, s_file, s_docs, s_raised>>
    /\ UNCHANGED <<stats_vars, commute_vars, tool_vars, walk_vars, parse_vars, extract_vars, format_vars, download_vars, bucket_vars>>

\* lines 286-304
ProcessQuestionnaire ==
    /\ s_pc = "questionnaire"
    /\ s_data' = SimpleQuestionnaire(s_data, s_file, s_cfg)
    /\ s_pc' = "sliders"
    /\ UNCHANGED <<s_cfg, s_file, s_docs, s_raised>>
    /\ UNCHANGED <<stats_vars, commute_vars, tool_vars, walk_vars, parse_vars, extract_vars, format_vars, download_vars, bucket_vars>>

\* lines 306-342
ProcessSliders ==
    /\ s_pc = "sliders"
    /\ s_data' = SliderLoop(s_data, s_cfg.questionnaire_slider_defs, s_file, s_cfg)
    /\ s_pc' = "histograms"
    /\ UNCHANGED <<s_cfg, s_file, s_docs, s_raised>>
    /\ UNCHANGED <<stats_vars, commute_vars, tool_vars, walk_vars, parse_vars, extract_vars, format_vars, download_vars, bucket_vars>>

\* lines 344-377
ProcessHistograms ==
    /\ s_pc = "histograms"
    /\ LET r == HistogramLoop([data |-> s_data, raised |-> FALSE],
                              s_cfg.questionnaire_histogram_defs, s_file, s_cfg)
       IN /\ s_data' = r.data
          /\ s_raised' = IF r.raised THEN s_raised \cup {"histogram"} ELSE s_raised
    /\ s_pc' = "write"
    /\ UNCHANGED <<s_cfg, s_file, s_docs>>
    /\ UNCHANGED <<stats_vars, commute_vars, tool_vars, walk_vars, parse_vars, extract_vars, format_vars, download_vars, bucket_vars>>

\* lines 379-435: one document a key
WriteSummaries ==
    /\ s_pc = "write"
    /\ s_docs' = [key \in DOMAIN s_data |-> Document(s_data[key])]
    /\ s_pc' = "done"
    /\ UNCHANGED <<s_cfg, s_file, s_data, s_raised>>
    /\ UNCHANGED <<stats_vars, commute_vars, tool_vars, walk_vars, parse_vars, extract_vars, format_vars, download_vars, bucket_vars>>

\* --------------------------------------- download_data.py, the fetcher
\* Keys of the bucket, as path parts: two objects of site 1, one of them in a
\* sub-directory named 2, and one object of site 2.
ObjectA == <<1, FileSeg>>
ObjectB == <<2, FileSeg>>
ObjectC == <<1, 2, FileSeg>>

\* what list_objects_v2 returns, page by page
Listings ==
    {<<<<ObjectA, ObjectB, ObjectC>>>>,
     <<<<ObjectA, ObjectB>>, <<ObjectC>>>>,
     <<<<ObjectA>>, <<ObjectB, ObjectC>>>>}

DownloadFilters ==
    {[exclude_sites |-> {}, include_sites |-> {}],
     [exclude_sites |-> {2}, include_sites |-> {}],
     [exclude_sites |-> {}, include_sites |-> {2}]}

StartPages == {1, 2}

\* os.path.dirname(local_file_path) (line 115)
LocalDir(key) == SubSeq(key, 1, Len(key) - 1)

\* the existing file is fetched again whatever the flag (mutant of Tasks)
TasksAlways(page, filter, baddirs, skip_file_check, local) ==
    {key \in Range(page) :
        /\ ~ShouldExcludeKey(key, filter.exclude_sites, filter.include_sites)
        /\ LocalDir(key) \notin baddirs}

\* the tasks of one page (lines 109-124)
Tasks(page, filter, baddirs, skip_file_check, local) ==
    {key \in Range(page) :
        /\ ~ShouldExcludeKey(key, filter.exclude_sites, filter.include_sites)
        /\ LocalDir(key) \notin baddirs
        /\ (skip_file_check \/ key \notin local)}

NoRun == [start |-> 1, skip |-> FALSE, queued |-> {}, failed |-> {}]

DownloadInit ==
    /\ d_pc = "run"
    /\ d_listing \in Listings
    /\ d_filter \in DownloadFilters
    /\ d_baddirs \in {{}, {LocalDir(ObjectC)}}
    /\ d_start \in StartPages
    /\ d_skip \in BOOLEAN
    /\ d_page = 1
    /\ d_local \in {{}, {ObjectA}}
    /\ d_local0 = d_local
    /\ d_queued = {}
    /\ d_failed = {}
    /\ d_written = {}
    /\ d_run = 1
    /\ d_prev = NoRun

DownloadOff ==
    /\ d_pc = "off"
    /\ d_listing = <<>>
    /\ d_filter = [exclude_sites |-> {}, include_sites |-> {}]
    /\ d_baddirs = {}
    /\ d_start = 1
    /\ d_skip = FALSE
    /\ d_page = 1
    /\ d_local = {}
    /\ d_local0 = {}
    /\ d_queued = {}
    /\ d_failed = {}
    /\ d_written = {}
    /\ d_run = 0
    /\ d_prev = NoRun

\* one page of the listing (lines 101-139): skipped below start_at_page;
\* otherwise its tasks are built and each download succeeds or raises inside
\* download_file_wrapper (lines 71-81), which leaves no local file behind
DownloadPage ==
    /\ d_pc = "run"
    /\ d_page <= Len(d_listing)
    /\ LET tasks == IF d_page < d_start THEN {}
                    ELSE Tasks(d_listing[d_page], d_filter, d_baddirs, d_skip, d_local)
       IN \E done \in SUBSET tasks :
             /\ d_queued' = d_queued \cup tasks
             /\ d_failed' = d_failed \cup (tasks \ done)
             /\ d_written' = d_written \cup done
             /\ d_local' = d_local \cup done
    /\ d_page' = d_page + 1
    /\ UNCHANGED <<d_pc, d_listing, d_filter, d_baddirs, d_start, d_skip, d_local0, d_run, d_prev>>
    /\ UNCHANGED <<stats_vars, commute_vars, tool_vars, walk_vars, parse_vars, extract_vars, format_vars, summary_vars, bucket_vars>>

\* the page iterator is exhausted (lines 140-141)
DownloadEnd ==
    /\ d_pc = "run"
    /\ d_page > Len(d_listing)
    /\ d_pc' = "ended"
    /\ UNCHANGED <<d_listing, d_filter, d_baddirs, d_start, d_skip, d_page, d_local,
                   d_local0, d_queued, d_failed, d_written, d_run, d_prev>>
    /\ UNCHANGED <<stats_vars, commute_vars, tool_vars, walk_vars, parse_vars, extract_vars, format_vars, summary_vars, bucket_vars>>

\* the command is run a second time on the same bucket and output directory
DownloadAgain ==
    /\ d_pc = "ended"
    /\ d_run = 1
    /\ d_start' \in StartPages
    /\ d_skip' \in BOOLEAN
    /\ d_prev' = [start |-> d_start, skip |-> d_skip, queued |-> d_queued, failed |-> d_failed]
    /\ d_pc' = "run"
    /\ d_page' = 1
    /\ d_local0' = d_local
    /\ d_queued' = {}
    /\ d_failed' = {}
    /\ d_written' = {}
    /\ d_run' = 2
    /\ UNCHANGED <<d_listing, d_filter, d_baddirs, d_local>>
    /\ UNCHANGED <<stats_vars, commute_vars, tool_vars, walk_vars, parse_vars, extract_vars, format_vars, summary_vars, bucket_vars>>

\* ------------------------------------ summary.py / main.py, class S3Bucket
\* A file name is its base name split at '_' and its extension.  The date
\* part 1 is eight digits of a calendar date, 99 eight digits of none.
SummaryName(parts, ext) == [parts |-> parts, ext |-> ext]

\* An object is the directory parts of its key below the prefix and its file
\* name; parts = dirs + the name.
BucketObject(dirs, filename) == [dirs |-> dirs, filename |-> filename]

\* the objects of the bucket, in the order of the listing
BucketObjects ==
    <<BucketObject(<<1, 1>>, SummaryName(<<1, 1>>, "csv.gz")),
      BucketObject(<<1, 1>>, SummaryName(<<1, 1, 7>>, "csv.gz")),
      BucketObject(<<1, 1>>, SummaryName(<<99, 1>>, "csv.gz")),
      BucketObject(<<1, 1>>, SummaryName(<<5>>, "json")),
      BucketObject(<<2, 2>>, SummaryName(<<1, 1>>, "csv.gz")),
      BucketObject(<<1>>, SummaryName(<<1, 2>>, "csv.gz"))>>

\* the pages of a listing, one object after the other
ListingOf(objects) == SelectSeq(BucketObjects, LAMBDA o : o \in objects)

\* DataFile.parse_filename (summary.py lines 24-47): date, time, index
ParseFilename(filename) ==
    LET parts == filename.parts
    IN IF Len(parts) \notin {2, 3} \/ parts[1] = 99
       THEN [date |-> None, time |-> None, index |-> None]
       ELSE [date |-> parts[1], time |-> parts[2],
             index |-> IF Len(parts) = 3 THEN parts[3] ELSE None]

\* DataFile.__init__ (lines 15-22)
DataFile(filename, s3_path) ==
    [filename |-> filename, s3_path |-> s3_path,
     date |-> ParseFilename(filename).date,
     time |-> ParseFilename(filename).time,
     index |-> ParseFilename(filename).index]

\* Measurement.__init__ (lines 53-57)
NewMeasurement == [data_files |-> <<>>, file_counts |-> <<>>, schema |-> <<>>]

\* Measurement.add_data_file (lines 59-63)
AddDataFile(measurement, data_file) ==
    [measurement EXCEPT
        !.data_files = Append(@, data_file),
        !.file_counts =
            IF data_file.date # None /\ data_file.time # None
            THEN SetEntry(@, <<data_file.date, data_file.time>>,
                          EntryOf(@, <<data_file.date, data_file.time>>, 0) + 1)
            ELSE @]

\* Measurement.set_schema (lines 65-69)
SetSchema(measurement, obj) == [measurement EXCEPT !.schema = <<obj>>]

\* the loop of gather_info over the listing (lines 122-144), into the users it
\* is given.  users maps (user_id, measurement_name) to the measurement.
RECURSIVE FetchInto(_, _)
FetchInto(users, listing) ==
    IF listing = <<>> THEN users
    ELSE LET obj == Head(listing)
             measurement == EntryOf(users, obj.dirs, NewMeasurement)
             after ==
                IF Len(obj.dirs) + 1 # 3 THEN users
                ELSE IF obj.filename.ext = "csv.gz"
                THEN SetEntry(users, obj.dirs,
                              AddDataFile(measurement, DataFile(obj.filename, obj)))
                ELSE IF obj.filename.ext = "json"
                THEN SetEntry(users, obj.dirs, SetSchema(measurement, obj))
                ELSE SetEntry(users, obj.dirs, measurement)
         IN FetchInto(after, Tail(listing))

NoCacheFile == [exists |-> FALSE, users |-> <<>>]
CacheFile(users) == [exists |-> TRUE, users |-> users]

\* S3Bucket.gather_info (summary.py lines 103-150, main.py lines 108-153):
\* self.users and the cache file afterwards
GatherInfo(users, cache, objects, use_cached) ==
    IF use_cached /\ cache.exists
    THEN [users |-> cache.users, cache |-> cache]
    ELSE [users |-> FetchInto(users, ListingOf(objects)),
          cache |-> CacheFile(FetchInto(users, ListingOf(objects)))]

BucketInit ==
    /\ b_pc = "start"
    /\ b_tool \in {"summary", "main"}
    /\ b_listing \in SUBSET Range(BucketObjects)
    /\ b_cache \in {NoCacheFile} \cup
                   {CacheFile(FetchInto(<<>>, ListingOf(old))) : old \in SUBSET Range(BucketObjects)}
    /\ b_users = <<>>
    /\ b_loaded = FALSE
    /\ b_raised = FALSE

BucketOff ==
    /\ b_pc = "off"
    /\ b_tool = "none"
    /\ b_listing = {}
    /\ b_cache = NoCacheFile
    /\ b_users = <<>>
    /\ b_loaded = FALSE
    /\ b_raised = FALSE

\* main: S3Bucket(...) and gather_info() (summary.py lines 340-341, main.py 339-340)
BucketGatherInfo ==
    /\ b_pc = "start"
    /\ LET r == GatherInfo(b_users, b_cache, b_listing, TRUE)
       IN /\ b_users' = r.users
          /\ b_cache' = r.cache
    /\ b_loaded' = b_cache.exists
    /\ b_pc' = "ready"
    /\ UNCHANGED <<b_tool, b_listing, b_raised>>
    /\ UNCHANGED <<stats_vars, commute_vars, tool_vars, walk_vars, parse_vars, extract_vars, format_vars, summary_vars, download_vars>>

\* the command update_summary_file.  summary.py (lines 250-255) calls
\* gather_info(use_cached=False) on the object as it is.  main.py (lines
\* 259-266) calls gather_info(use_cached=False, filename=filename), a keyword
\* gather_info (line 108) does not take: TypeError, before anything is done.
BucketUpdateSummaryFile ==
    /\ b_pc = "ready"
    /\ IF b_tool = "summary"
       THEN LET r == GatherInfo(b_users, b_cache, b_listing, FALSE)
            IN /\ b_users' = r.users
               /\ b_cache' = r.cache
               /\ UNCHANGED b_raised
       ELSE /\ b_raised' = TRUE
            /\ UNCHANGED <<b_users, b_cache>>
    /\ b_pc' = "updated"
    /\ UNCHANGED <<b_tool, b_listing, b_loaded>>
    /\ UNCHANGED <<stats_vars, commute_vars, tool_vars, walk_vars, parse_vars, extract_vars, format_vars, summary_vars, download_vars>>

\* ---------------------------------------------------------- specifications
Init == StatsInit /\ CommuteOff /\ ToolOff /\ WalkOff /\ ParseOff /\ ExtractOff /\ FormatOff /\ SummaryOff /\ DownloadOff /\ BucketOff

Next ==
    \/ EnterDirectory
    \/ ProcessFile
    \/ FinishDirectory
    \/ WriteSiteFile
    \/ WriteCombined
    \/ EndWalk
    \/ Terminate

\* one run of the stats engine
Spec == Init /\ [][Next]_vars

InitCommute == StatsOff /\ CommuteInit /\ ToolOff /\ WalkOff /\ ParseOff /\ ExtractOff /\ FormatOff /\ SummaryOff /\ DownloadOff /\ BucketOff

CommuteNext ==
    \/ CommuteSeed
    \/ CommutePick
    \/ CommuteFirst
    \/ CommuteSecond

\* two fact lists merged in both orders into the same starting store
SpecCommute == InitCommute /\ [][CommuteNext]_vars

InitMergeTool == StatsOff /\ CommuteOff /\ ToolInit /\ WalkOff /\ ParseOff /\ ExtractOff /\ FormatOff /\ SummaryOff /\ DownloadOff /\ BucketOff

ToolNext ==
    \/ ToolStartRun
    \/ ToolProcessMetric
    \/ ToolEndRun
    \/ ToolChangeTree

\* runs of the merge engine over one output directory
SpecMergeTool == InitMergeTool /\ [][ToolNext]_vars

InitWalk == StatsOff /\ CommuteOff /\ ToolOff /\ WalkInit /\ ParseOff /\ ExtractOff /\ FormatOff /\ SummaryOff /\ DownloadOff /\ BucketOff

WalkNext ==
    \/ WalkVisit
    \/ DownloadObject
    \/ WalkEnd

\* one run of a walker, or of the fetcher, under --include / --exclude
SpecWalk == InitWalk /\ [][WalkNext]_vars

InitParse == StatsOff /\ CommuteOff /\ ToolOff /\ WalkOff /\ ParseInit /\ ExtractOff /\ FormatOff /\ SummaryOff /\ DownloadOff /\ BucketOff

ParseNext ==
    \/ ParseFile
    \/ StatsLoopBody

\* one file name under one directory, through both parsers and the stats engine
SpecParse == InitParse /\ [][ParseNext]_vars

InitExtract == StatsOff /\ CommuteOff /\ ToolOff /\ WalkOff /\ ParseOff /\ ExtractInit /\ FormatOff /\ SummaryOff /\ DownloadOff /\ BucketOff

ExtractNext ==
    \/ GatherFile
    \/ MergeFile

\* one file through gather_file_stats and into the store
SpecExtract == InitExtract /\ [][ExtractNext]_vars

InitFormat == StatsOff /\ CommuteOff /\ ToolOff /\ WalkOff /\ ParseOff /\ ExtractOff /\ FormatInit /\ SummaryOff /\ DownloadOff /\ BucketOff

FormatNext ==
    \/ WriteStats
    \/ WriteMerged
    \/ WriteCollected

\* calls of one tool's write function on one output directory
SpecFormat == InitFormat /\ [][FormatNext]_vars

InitSummary == StatsOff /\ CommuteOff /\ ToolOff /\ WalkOff /\ ParseOff /\ ExtractOff /\ FormatOff /\ SummaryInit /\ DownloadOff /\ BucketOff

SummaryNext ==
    \/ ProcessFeatures
    \/ ProcessQuestionnaire
    \/ ProcessSliders
    \/ ProcessHistograms
    \/ WriteSummaries

\* one file through the patient-summary extractor, and the documents written
SpecSummary == InitSummary /\ [][SummaryNext]_vars

InitDownload == StatsOff /\ CommuteOff /\ ToolOff /\ WalkOff /\ ParseOff /\ ExtractOff /\ FormatOff /\ SummaryOff /\ DownloadInit /\ BucketOff

DownloadNext ==
    \/ DownloadPage
    \/ DownloadEnd
    \/ DownloadAgain

\* two runs of the fetcher into the same output directory
SpecDownload == InitDownload /\ [][DownloadNext]_vars

InitBucket == StatsOff /\ CommuteOff /\ ToolOff /\ WalkOff /\ ParseOff /\ ExtractOff /\ FormatOff /\ SummaryOff /\ DownloadOff /\ BucketInit

BucketNext ==
    \/ BucketGatherInfo
    \/ BucketUpdateSummaryFile

\* one run of the bucket summary tool with the command update_summary_file
SpecBucket == InitBucket /\ [][BucketNext]_vars


\* ------------------------------------------------------- reference notions
\* the store as a mapping, whatever the insertion order
AsMap(store) == {<<store[i].key, store[i].acc>> : i \in DOMAIN store}

\* the facts merged so far into a key
FactsFor(k) == SelectSeq(merged, LAMBDA f : KeyOf(f) = k)

\* the fold of a key's facts, by sum, minimum, maximum and union
RefRecord(fs) ==
    LET starts == {fs[i].start_date : i \in DOMAIN fs} \ {None}
        ends == {fs[i].end_date : i \in DOMAIN fs} \ {None}
    IN [row_count |-> SumSeq([i \in DOMAIN fs |-> fs[i].row_count]),
        start_date |-> IF starts = {} THEN None ELSE Min(starts),
        end_date |-> IF ends = {} THEN None ELSE Max(ends),
        day_set |-> UNION {fs[i].day_set : i \in DOMAIN fs}]

RowKeys(rows) == {KeyOf(rows[i]) : i \in DOMAIN rows}

RowSites(rows) == {rows[i].site : i \in DOMAIN rows}

\* the rows of every artifact on disk
DiskRows == Range(all_sites_file) \cup UNION {Range(site_files[s]) : s \in DOMAIN site_files}

\* the per-site artifacts and the combined artifact show the same rows
SnapshotConsistent ==
    /\ DOMAIN site_files = RowSites(all_sites_file)
    /\ \A s \in DOMAIN site_files : site_files[s] = SiteRows(all_sites_file, s)

\* no merge since the last completed flush
Flushed == pc \in {"walk", "files", "done"} /\ n_flushes > 0

\* ------------------------------------------------------------------ claims

\* C1: merging fact list A then B into a store gives the same store (same keys,
\* same row_count, start_date, end_date and day_set per key) as merging B then A,
\* with accumulate_stats and with main's inline loop.
C1_MergeCommutes == c_pc = "merged" => AsMap(c_ab) = AsMap(c_ba)

C1_Witness ==
    /\ c_pc = "merged"
    /\ Len(c_ab) >= 2
    /\ \E i \in DOMAIN c_A, j \in DOMAIN c_B :
          /\ KeyOf(c_A[i]) = KeyOf(c_B[j])
          /\ c_A[i].start_date # None
          /\ c_B[j].start_date # None
          /\ c_A[i].start_date < c_B[j].start_date
          /\ c_A[i].day_set # c_B[j].day_set

\* C2: a step of the running engine never removes a key, never shrinks a key's day_set, never moves
\* its start_date later or back to None, never moves its end_date earlier or
\* back to None.
C2_Monotone ==
    [][pc' # "crashed" => \A k \in Keys(global_stats) :
          /\ k \in Keys(global_stats')
          /\ Get(global_stats, k).day_set \subseteq Get(global_stats', k).day_set
          /\ Get(global_stats, k).start_date # None =>
                /\ Get(global_stats', k).start_date # None
                /\ Get(global_stats', k).start_date <= Get(global_stats, k).start_date
          /\ Get(global_stats, k).end_date # None =>
                /\ Get(global_stats', k).end_date # None
                /\ Get(global_stats', k).end_date >= Get(global_stats, k).end_date]_vars

C2_Witness ==
    \E i, j \in DOMAIN merged :
        /\ i < j
        /\ KeyOf(merged[i]) = KeyOf(merged[j])
        /\ merged[i].start_date # None
        /\ merged[j].start_date # None
        /\ merged[i].start_date < merged[j].start_date
        /\ merged[j].day_set # merged[i].day_set
        /\ Get(global_stats, KeyOf(merged[i])).start_date = merged[i].start_date
        /\ Get(global_stats, KeyOf(merged[i])).end_date = merged[j].end_date

\* C3: the record of each key is the fold of the facts merged for it: the sum of
\* the row counts, the minimum of the non-None starts, the maximum of the
\* non-None ends (None only when all are None), the union of the day sets.
C3_FoldReference ==
    /\ Len(global_stats) = Cardinality(Keys(global_stats))
    /\ \A k \in Keys(global_stats) : Get(global_stats, k) = RefRecord(FactsFor(k))

C3_Witness ==
    \E k \in Keys(global_stats) :
        /\ Len(FactsFor(k)) >= 2
        /\ FactsFor(k)[1].start_date = None
        /\ FactsFor(k)[2].start_date # None
        /\ FactsFor(k)[1].row_count > 0
        /\ FactsFor(k)[2].row_count > 0

\* C4: every key of the store, and every row built or written by a flush, has a
\* fact extracted from an input file merged into it.
C4_NoPlaceholderKey ==
    /\ \A k \in Keys(global_stats) : FactsFor(k) # <<>>
    /\ pc # "crashed" => \A r \in Range(df_all) \cup DiskRows : FactsFor(KeyOf(r)) # <<>>

C4_Witness ==
    /\ pc = "done"
    /\ n_flushes > 0
    /\ Len(merged) = 1
    /\ \E i \in DOMAIN global_stats : global_stats[i].key[3] # MetricName(MetricBase, NoDevice)

\* C5: the day_count of every row of a flush is the number of elements of the
\* key's day_set in the store at that flush.
C5_DayCountIsCardinality ==
    /\ pc \in {"write_site", "write_all"} =>
          \A r \in Range(df_all) :
              r.day_count = Cardinality(Get(global_stats, KeyOf(r)).day_set)
    /\ Flushed =>
          \A r \in DiskRows :
              r.day_count = Cardinality(Get(global_stats, KeyOf(r)).day_set)

C5_Witness ==
    /\ pc = "write_all"
    /\ \E r \in Range(df_all) :
          /\ r.day_count = 2
          /\ Day(r.end_date) - Day(r.start_date) = 2

\* C6: when the run is terminated, also between the file writes of a flush, the
\* combined artifact and the per-site artifacts show one and the same store.
C6_CrashLeavesSnapshot ==
    (pc = "crashed" /\ all_sites_file # <<>>) => SnapshotConsistent

\* C7: between two directories and at the end of the walk, as many flushes have
\* completed as directories produced facts, and once one did, the artifacts hold
\* the rows of the whole current store.
C7_FlushPerFactDirectory ==
    pc \in {"walk", "done"} =>
        /\ n_flushes = n_fact_dirs
        /\ n_fact_dirs > 0 =>
              /\ Range(all_sites_file) = Range(BuildRows(global_stats))
              /\ DiskRows = Range(BuildRows(global_stats))

C7_Witness ==
    /\ pc = "done"
    /\ n_fact_dirs >= 2
    /\ n_flushes = n_fact_dirs
    /\ Len(global_stats) = 1

\* C8: after a flush the combined artifact holds one row per key of the store in
\* ascending (site, participant, metric) order, each row the fold of the key's
\* facts whatever the order they came in, and each per-site artifact holds the
\* combined rows of its site in the same order.
C8_SortedArtifacts ==
    Flushed =>
        /\ Len(all_sites_file) = Cardinality(Keys(global_stats))
        /\ RowKeys(all_sites_file) = Keys(global_stats)
        /\ \A i, j \in DOMAIN all_sites_file :
              i < j => KeyLess(KeyOf(all_sites_file[i]), KeyOf(all_sites_file[j]))
        /\ \A i \in DOMAIN all_sites_file :
              LET r == all_sites_file[i]
                  ref == RefRecord(FactsFor(KeyOf(r)))
              IN /\ r.row_count = ref.row_count
                 /\ r.start_date = ref.start_date
                 /\ r.end_date = ref.end_date
                 /\ r.day_count = Cardinality(ref.day_set)
        /\ SnapshotConsistent

C8_Witness ==
    /\ pc = "done"
    /\ n_flushes > 0
    /\ Len(global_stats) >= 2
    /\ KeyLess(global_stats[2].key, global_stats[1].key)
    /\ Cardinality(DOMAIN site_files) = 2

\* the frames of the readable files of a key, in the order of the files
RefMerged(key, files) ==
    LET good == SelectSeq(files, LAMBDA f : f.readable)
    IN [i \in DOMAIN good |->
          [file_timestamp |-> good[i].timestamp, key |-> key, data |-> good[i].data]]

\* C9: a run with update=False that follows a run with update=False over the
\* same input tree writes no artifact and leaves every artifact as the first
\* run left it.
C9_RerunWritesNothing ==
    (t_pc = "run" /\ t_runs >= 2 /\ ~t_update /\ ~t_prev.update /\ t_prev.same_tree) =>
        /\ t_writes = {}
        /\ t_out = t_prev.out

C9_Witness ==
    /\ t_pc = "run"
    /\ t_runs >= 2
    /\ t_todo = <<>>
    /\ ~t_update
    /\ ~t_prev.update
    /\ t_prev.same_tree
    /\ \E k \in ToolKeys : t_out[k] # NoArtifact /\ <<k, 1>> \notin t_reads
    /\ \E k \in ToolKeys : t_out[k] = NoArtifact /\ <<k, 1>> \in t_reads

\* C10 (as claimed): with update=True process_metric overwrites the existing
\* artifact of the key with the newly merged result, whatever was there.
C10_UpdateAlwaysOverwrites ==
    (t_pc = "run" /\ t_last.key # 0 /\ t_update /\ t_last.before # NoArtifact) =>
        t_out[t_last.key] = RefMerged(t_last.key, t_tree[t_last.key])

\* C10 (amended): with update=False and an existing artifact process_metric opens
\* no input file of the key and leaves the artifact; with update=True it opens
\* every input file of the key and, when at least one can be read, replaces the
\* artifact by the merge of the readable ones; when none can be read it leaves
\* the artifact as it was.
C10_UpdateSemantics ==
    (t_pc = "run" /\ t_last.key # 0) =>
        LET k == t_last.key
            opened == {r \in t_reads : r[1] = k}
        IN /\ (~t_update /\ t_last.before # NoArtifact) =>
                 /\ opened = {}
                 /\ t_out[k] = t_last.before
           /\ t_update =>
                 /\ opened = {<<k, i>> : i \in DOMAIN t_tree[k]}
                 /\ IF \E i \in DOMAIN t_tree[k] : t_tree[k][i].readable
                    THEN t_out[k] = RefMerged(k, t_tree[k])
                    ELSE t_out[k] = t_last.before

C10_Witness ==
    /\ t_pc = "run"
    /\ t_last.key # 0
    /\ t_update
    /\ t_last.before # NoArtifact
    /\ t_out[t_last.key] # t_last.before
    /\ \E i \in DOMAIN t_tree[t_last.key] : ~t_tree[t_last.key][i].readable

\* C11: in the stats engine and in the fetcher, a file one of whose path
\* segments is in a non-empty exclusion set is never handed on, whatever the
\* inclusion set holds; so no processed file of the stats engine has its
\* participant segment in the exclusion set.
C11_ExclusionWins ==
    (w_tool \in {"stats", "download"}) =>
        \A d \in w_processed :
            /\ ~AnyIn(PartsOf(d), w_exclude)
            /\ (w_tool = "stats" => ParseFilePath(PartsOf(d), TextName).participant
                                        \notin w_exclude)

C11_Witness ==
    /\ w_pc = "done"
    /\ w_tool = "stats"
    /\ \E d \in w_filedirs \ w_processed :
          /\ Len(PartsOf(d)) >= MinParts
          /\ PartsOf(d)[3] \in w_exclude \cap w_include
    /\ \E d \in w_processed : AnyIn(PartsOf(d), w_include)

\* C12 (as claimed): in each of the three walkers, with a non-empty inclusion
\* set every processed file has a path segment equal to an entry of the set, and
\* with an empty inclusion set the inclusion rule turns down no file.
C12_IncludeIsLiteral ==
    (w_tool \in WalkerTools) =>
        /\ w_include # {} => \A d \in w_processed : AnyIn(PartsOf(d), w_include)
        /\ w_include = {} => w_inc_rejected = {}

\* C13 (as claimed): in each of the three walkers, no directory is visited below
\* a directory one of whose segments is in the exclusion set.
C13_ExcludedSubtreePruned ==
    (w_tool \in WalkerTools) =>
        \A d \in w_visited : \A p \in w_visited :
            (p # d /\ IsPrefix(p, d)) => ~AnyIn(p, w_exclude)

\* C14: parse_file_path of the stats engine classifies by position: with at
\* least MinParts path parts, site, participant and metric are the 2nd, 3rd and
\* 4th part whatever follows them; with fewer parts there is no classification,
\* the file does not reach gather_file_stats, and the store and the rows written
\* from it stay as they were.
C14_ClassifiedByPosition ==
    (p_pc \in {"parsed", "done"}) =>
        LET parts == PartsOf(p_dirs) IN
        /\ Len(parts) >= MinParts =>
              /\ p_info.ok
              /\ p_info.site = parts[2]
              /\ p_info.participant = parts[3]
              /\ p_info.metric = parts[4]
        /\ Len(parts) < MinParts =>
              /\ ~p_info.ok
              /\ p_pc = "done" =>
                    /\ ~p_handed
                    /\ p_store = p_store0
                    /\ SortValues(BuildRows(p_store)) = SortValues(BuildRows(p_store0))

C14_Witness ==
    /\ p_pc = "done"
    /\ Len(PartsOf(p_dirs)) = MinParts + 2
    /\ p_dirs[MinParts + 1] # p_dirs[MinParts]
    /\ p_dirs[MinParts - 1] # p_dirs[MinParts]
    /\ p_handed
    /\ <<p_dirs[2], p_dirs[3], p_dirs[4]>> \in Keys(p_store) \ Keys(p_store0)

\* C15: for a name YYYYMMDD_HHMM.csv.gz with a valid date and time both parsers
\* return the timestamp of that date and time, and the name with a numeric
\* suffix gives the same key and the same timestamp as the name without it.
C15_TimestampOfName ==
    (p_pc \in {"parsed", "done"} /\ Len(PartsOf(p_dirs)) >= MinParts) =>
        \A dv \in DateDigits : \A tv \in TimeDigits :
            /\ (p_name \in {PlainName(dv, tv), IndexedName(dv, tv)} /\ StrptimeOk(dv, tv)) =>
                  /\ p_info.timestamp = <<dv[1], dv[2], dv[3], tv[1], tv[2]>>
                  /\ p_minfo.timestamp = <<dv[1], dv[2], dv[3], tv[1], tv[2]>>
                  /\ p_minfo.ok
            /\ p_name = IndexedName(dv, tv) =>
                  /\ p_info = ParseFilePath(PartsOf(p_dirs), PlainName(dv, tv))
                  /\ p_minfo = MergeParseFilePath(PartsOf(p_dirs), PlainName(dv, tv))

\* root/x/SITE1/P001/steps/20230814_0930_2.csv.gz
C15_Witness ==
    /\ p_pc = "done"
    /\ p_dirs = <<1, 2, 1, 2>>
    /\ p_name = IndexedName(<<2023, 8, 14>>, <<9, 30>>)
    /\ p_info.site = 2 /\ p_info.participant = 1 /\ p_info.metric = 2
    /\ p_info.timestamp = <<2023, 8, 14, 9, 30>>
    /\ p_minfo = p_info

\* C16 (as claimed): a file name that is not, as a whole, 8 digits, underscore,
\* 4 digits, optional _index, .csv.gz yields no timestamp from either parser.
C16_WholeNameMatched ==
    (p_pc \in {"parsed", "done"} /\ ~MatchesPattern(p_name)) =>
        /\ p_info.timestamp = NoTimestamp
        /\ p_minfo.timestamp = NoTimestamp

\* C17 (as claimed): in the stats engine a file whose name matches the pattern
\* with digits that are no calendar date and time does not reach
\* gather_file_stats and leaves the store as it was.
C17_InvalidDigitsSkipped ==
    (/\ p_pc = "done"
     /\ ReSearch(p_name) # NoMatch
     /\ ~StrptimeOk(ReSearch(p_name)[1], ReSearch(p_name)[2])) =>
        /\ ~p_handed
        /\ p_store = p_store0

\* C18 (as claimed): a .csv.gz file with at least MinParts path parts that passes
\* the filter and whose name does not match the pattern is classified under its
\* (site, participant, metric) key with no timestamp, by either parser, and
\* aggregated under that key.
C18_UnmatchedNameClassified ==
    (/\ p_pc = "done"
     /\ Len(PartsOf(p_dirs)) >= MinParts
     /\ ReSearch(p_name) = NoMatch) =>
        /\ p_info.ok /\ p_info.timestamp = NoTimestamp
        /\ p_minfo.ok /\ p_minfo.timestamp = NoTimestamp
        /\ p_handed
        /\ <<p_info.site, p_info.participant, p_info.metric>> \in Keys(p_store)

\* C18 (amended): such a file is classified with no timestamp by the stats
\* engine, reaches gather_file_stats and is aggregated under the key of its 2nd,
\* 3rd and 4th path part; the merge tool's parser classifies nothing for it.
C18_UnmatchedNameAggregated ==
    (/\ p_pc = "done"
     /\ Len(PartsOf(p_dirs)) >= MinParts
     /\ ReSearch(p_name) = NoMatch) =>
        LET parts == PartsOf(p_dirs)
            key == <<parts[2], parts[3], parts[4]>>
        IN /\ p_info.ok /\ p_info.timestamp = NoTimestamp
           /\ KeyOf(p_info) = key
           /\ p_handed
           /\ key \in Keys(p_store)
           /\ Get(p_store, key).row_count =
                 (IF key \in Keys(p_store0) THEN Get(p_store0, key).row_count ELSE 0)
                 + Len(ParsedFileContent.rows)
           /\ ~p_minfo.ok

C18_Witness ==
    /\ p_pc = "done"
    /\ p_name = JoinedName(<<2023, 8, 14>>, <<9, 30>>)
    /\ p_dirs = <<2, 1, 2, 1>>
    /\ p_handed
    /\ p_store0 # <<>>
    /\ Get(p_store, <<1, 2, 1>>).row_count = 2
    /\ ~p_minfo.ok

\* C19 (as claimed): when something fails inside gather_file_stats the call
\* returns no fact at all, the store is as it was before the file, and the loop
\* over the files goes on.
C19_FailureGivesNoFacts ==
    (x_pc \in {"gathered", "merged"} /\ Failed(x_file, x_raise)) =>
        /\ x_results = <<>>
        /\ x_pc = "merged" => x_store = x_store0

\* C20: each fact of a file counts all raw rows of its group (of the whole file
\* when there is no device column), rows with an unparseable time included;
\* start_date, end_date and day_set come from the valid time values only:
\* day_set is the set of their days, at most as many as there are valid rows,
\* start their minimum, end their maximum, and all three are empty when no
\* value is valid.
C20_RowCountAndCoverage ==
    (x_pc \in {"gathered", "merged"} /\ ~Failed(x_file, x_raise)) =>
        LET rows == x_file.rows
            valid_rows == {i \in DOMAIN rows : rows[i].time # NaT}
            instants == {rows[i].time : i \in valid_rows}
        IN \A k \in DOMAIN x_results :
            LET fact == x_results[k]
                group == IF x_file.has_device
                         THEN {i \in DOMAIN rows :
                                 MetricName(MetricBase, rows[i].device) = fact.metric}
                         ELSE DOMAIN rows
            IN /\ fact.row_count = Cardinality(group)
               /\ fact.day_set = {Day(rows[i].time) : i \in valid_rows}
               /\ Cardinality(fact.day_set) <= Cardinality(valid_rows)
               /\ instants # {} =>
                     /\ fact.start_date \in instants /\ fact.end_date \in instants
                     /\ \A t \in instants : fact.start_date <= t /\ t <= fact.end_date
               /\ instants = {} =>
                     fact.start_date = None /\ fact.end_date = None /\ fact.day_set = {}

C20_Witness ==
    /\ x_pc = "merged"
    /\ ~Failed(x_file, x_raise)
    /\ Len(x_results) = 1
    /\ x_results[1].row_count = 2
    /\ x_results[1].day_set = {Day(5)}
    /\ x_results[1].start_date = 5
    /\ \E i \in DOMAIN x_file.rows : x_file.rows[i].time = NaT
    /\ x_store0 # <<>>
    /\ x_store # x_store0

\* C21: with a device column gather_file_stats emits exactly one fact per
\* distinct value found in it, its metric suffixed by the value and its
\* row_count the number of rows that carry the value; without one it emits
\* exactly one fact, for the whole file, under the unsuffixed metric.
C21_OneFactPerDevice ==
    (x_pc \in {"gathered", "merged"} /\ ~Failed(x_file, x_raise)) =>
        LET rows == x_file.rows
            values == {rows[i].device : i \in DOMAIN rows} \ {NoDevice}
        IN IF x_file.has_device
           THEN /\ Len(x_results) = Cardinality(values)
                /\ \A d \in values :
                      \E k \in DOMAIN x_results :
                          /\ x_results[k].metric = MetricName(MetricBase, d)
                          /\ x_results[k].row_count =
                                Cardinality({i \in DOMAIN rows : rows[i].device = d})
           ELSE /\ Len(x_results) = 1
                /\ x_results[1].metric = MetricName(MetricBase, NoDevice)
                /\ x_results[1].row_count = Len(rows)

C21_Witness ==
    /\ x_pc = "merged"
    /\ ~Failed(x_file, x_raise)
    /\ x_file.has_device
    /\ Len(x_results) = 2
    /\ x_results[1].metric # x_results[2].metric
    /\ x_results[1].row_count = 1
    /\ Len(x_store) = 3

\* C30 (as claimed): for a file with a device column the row counts of the
\* facts add up to the number of rows of the file.
C30_DeviceRowCountsAddUp ==
    (x_pc \in {"gathered", "merged"} /\ ~Failed(x_file, x_raise) /\ x_file.has_device) =>
        SumSeq([k \in DOMAIN x_results |-> x_results[k].row_count]) = Len(x_file.rows)

TimeKeys == {GetTimeKey(t, r) : t \in Times \cup {3}, r \in Resolutions}
SummaryKeys == {<<s_file.participant, b>> : b \in TimeKeys}

\* the record of a key as a reader of summary_data sees it
SummaryRecord(key) == RecordOf(s_data, key, s_cfg.feature_defs)

FiveNull(final) ==
    /\ final.mean = NoStat
    /\ final.median = NoStat
    /\ final.std_dev = NoStat
    /\ final.min = NoStat
    /\ final.max = NoStat

\* C23: compute_stats of the empty list is five nulls, and in every document
\* written a feature or slider domain whose summary holds no numeric value
\* carries null in mean, median, std_dev, min and max.
C23_NoValuesGiveNulls ==
    /\ FiveNull(ComputeStats(<<>>))
    /\ s_pc = "done" =>
          \A key \in DOMAIN s_docs :
             /\ \A f \in DOMAIN s_data[key].feature_statistics :
                   s_data[key].feature_statistics[f].values = <<>> =>
                      FiveNull(s_docs[key].feature_statistics[f])
             /\ \A d \in DOMAIN s_data[key].slider :
                   s_data[key].slider[d].values = <<>> =>
                      FiveNull(s_docs[key].slider[d])

\* a document whose feature saw two rows, neither of them numeric
C23_Witness ==
    /\ s_pc = "done"
    /\ \E key \in DOMAIN s_docs : \E f \in DOMAIN s_docs[key].feature_statistics :
          /\ s_docs[key].feature_statistics[f].total_entries = 2
          /\ s_data[key].feature_statistics[f].values = <<>>
          /\ FiveNull(s_docs[key].feature_statistics[f])

\* the rows of the file for which the feature loop calls update_summary on the
\* summary of (key, feature f): those of the definition that took the file
RECURSIVE TakingDef(_, _)
TakingDef(defs, file) ==
    IF defs = <<>> THEN <<>>
    ELSE IF IsSubstring(Head(defs).source, file.dir) THEN <<Head(defs)>>
    ELSE TakingDef(Tail(defs), file)

FeatureCalls(key, f) ==
    LET taking == TakingDef(s_cfg.feature_defs, s_file)
    IN IF taking = <<>> \/ ~s_file.ok THEN <<>>
       ELSE IF taking[1].feature # f THEN <<>>
       ELSE LET rows == SelectSeq(s_file.rows, LAMBDA r :
                           /\ r.time # NaT
                           /\ (taking[1].filter_value # 0 => r.key = taking[1].filter_value)
                           /\ GetTimeKey(r.time, s_cfg.time_resolution) = key[2])
            IN [i \in DOMAIN rows |-> [dt |-> rows[i].time, value |-> rows[i].value]]

\* the same for the slider loop and the summary of (key, domain)
SliderCalls(key, domain) ==
    LET defs == s_cfg.questionnaire_slider_defs
    IN IF defs = <<>> \/ ~s_file.ok THEN <<>>
       ELSE IF defs[1].domain # domain \/ ~IsSubstring(defs[1].file_filter, s_file.dir) THEN <<>>
       ELSE LET rows == SelectSeq(s_file.rows, LAMBDA r :
                           /\ IsPrefix(defs[1].target_prefix, r.questionId)
                           /\ r[defs[1].time_suffix] # NaT
                           /\ GetTimeKey(r[defs[1].time_suffix], s_cfg.time_resolution) = key[2])
            IN [i \in DOMAIN rows |-> [dt |-> rows[i][defs[1].time_suffix],
                                       value |-> rows[i].value]]

\* what a summary holds after the calls
AfterCalls(summary, calls) ==
    LET numeric == SelectSeq(calls, LAMBDA c : c.value.k \in {"num", "nan"})
    IN /\ summary.total_entries = Len(calls)
       /\ summary.values = [i \in DOMAIN numeric |-> Float(numeric[i].value)]
       /\ summary.days = {Day(numeric[i].dt) : i \in DOMAIN numeric}
       /\ Len(summary.values) <= summary.total_entries

\* C24: after the update_summary calls made on a feature or slider summary,
\* total_entries is the number of calls, values holds the values of the
\* numeric calls in call order, days holds the dates of the numeric calls, and
\* values is never longer than total_entries.
C24_UpdateSummaryCounts ==
    s_pc \in {"histograms", "write", "done"} =>
        \A key \in SummaryKeys :
           /\ \A f \in DOMAIN SummaryRecord(key).feature_statistics :
                 AfterCalls(SummaryRecord(key).feature_statistics[f], FeatureCalls(key, f))
           /\ \A d \in {1} :
                 AfterCalls(EntryOf(SummaryRecord(key).slider, d, EmptySummary),
                            SliderCalls(key, d))

\* a slider summary called twice, once with a text and once with a number
C24_Witness ==
    /\ s_pc = "histograms"
    /\ \E key \in DOMAIN s_data : \E d \in DOMAIN s_data[key].slider :
          /\ s_data[key].slider[d].total_entries = 2
          /\ Len(s_data[key].slider[d].values) = 1
          /\ Len(SliderCalls(key, d)) = 2

\* the count of a histogram counter, 0 when it was never made
CounterOf(key, counter) == EntryOf(SummaryRecord(key).histogram, counter, 0)

\* C25 (as claimed): for every histogram definition whose file filter is in the
\* path, the counter of (domain, question id, response) in a time bucket is the
\* number of rows whose questionId is the target exactly and whose time, read
\* from the definition's own time field, is valid and falls in the bucket,
\* whatever slider definitions there are.
C25_HistogramCounts ==
    s_pc \in {"write", "done"} =>
        \A i \in DOMAIN s_cfg.questionnaire_histogram_defs :
           LET qh == s_cfg.questionnaire_histogram_defs[i]
           IN (IsSubstring(qh.file_filter, s_file.dir) /\ s_file.ok) =>
                 \A key \in SummaryKeys, q \in QuestionIds, v \in Cells :
                    CounterOf(key, <<qh.domain, q, Str(v)>>) =
                       Cardinality({j \in DOMAIN s_file.rows :
                          /\ q = qh.target_questionid
                          /\ s_file.rows[j].questionId = q
                          /\ s_file.rows[j].value = v
                          /\ s_file.rows[j][qh.time_suffix] # NaT
                          /\ GetTimeKey(s_file.rows[j][qh.time_suffix],
                                        s_cfg.time_resolution) = key[2]})

\* C26 (as claimed): every configured feature whose source is in the path of
\* the file has the file's rows that pass its filter and carry a valid time
\* folded into its statistics, also when an earlier feature has the same source.
C26_EveryMatchingFeatureFed ==
    s_pc \in {"questionnaire", "sliders", "histograms", "write", "done"} =>
        \A i \in DOMAIN s_cfg.feature_defs :
           LET fd == s_cfg.feature_defs[i]
           IN IsSubstring(fd.source, s_file.dir) =>
                 \A key \in SummaryKeys :
                    SummaryRecord(key).feature_statistics[fd.feature].total_entries =
                       Len(SelectSeq(ProcessCsvFile(s_file, fd), LAMBDA r :
                              GetTimeKey(r.time, s_cfg.time_resolution) = key[2]))

\* C29 (as claimed): every document written carries the participant of its key
\* as patient_id and as site, neither of them null.
C29_DocumentsNameParticipant ==
    s_pc = "done" =>
        \A key \in DOMAIN s_docs :
           /\ s_docs[key].patient_id # None
           /\ s_docs[key].patient_id = key[1]
           /\ s_docs[key].site = key[1]

\* ---- reference notions of the fetcher
ListedKeys == UNION {Range(d_listing[p]) : p \in DOMAIN d_listing}
PageOf(key) == CHOOSE p \in DOMAIN d_listing : key \in Range(d_listing[p])
PassesSiteFilter(key) ==
    /\ ~(\E site \in d_filter.exclude_sites : site \in Range(key))
    /\ (d_filter.include_sites # {} => \E site \in d_filter.include_sites : site \in Range(key))

\* C27 (as claimed): when a run is over, a listed object that passes the site
\* filter has been queued exactly if skip_file_check was set or its local file
\* did not exist; and a second run without skip_file_check, after a run whose
\* downloads all succeeded, has queued nothing and changed no local file.
C27_QueuedIffForcedOrMissing ==
    d_pc = "ended" =>
        /\ \A key \in ListedKeys :
              PassesSiteFilter(key) => (key \in d_queued <=> (d_skip \/ key \notin d_local0))
        /\ (d_run = 2 /\ ~d_skip /\ d_prev.failed = {}) =>
              (d_queued = {} /\ d_written = {} /\ d_local = d_local0)

\* C27 (amended): the same for the objects the run reaches: those on a page
\* from start_at_page on whose local directory can be made.  An object on an
\* earlier page, in a directory that cannot be made, or turned down by the
\* filter is never queued; and the second run queues nothing when it starts
\* no earlier in the listing than the first.
C27_QueuedIffForcedOrMissingOnPagesRead ==
    d_pc = "ended" =>
        /\ \A key \in ListedKeys :
              key \in d_queued <=>
                 /\ PassesSiteFilter(key)
                 /\ PageOf(key) >= d_start
                 /\ LocalDir(key) \notin d_baddirs
                 /\ (d_skip \/ key \notin d_local0)
        /\ (d_run = 2 /\ ~d_skip /\ d_prev.failed = {} /\ d_start >= d_prev.start) =>
              (d_queued = {} /\ d_written = {} /\ d_local = d_local0)

\* a second run from the same page, after a first one that fetched objects and
\* saw no failure, with objects on the pages it reads
C27_Witness ==
    /\ d_pc = "ended"
    /\ d_run = 2
    /\ ~d_skip
    /\ d_prev.queued # {}
    /\ d_prev.failed = {}
    /\ d_start = d_prev.start
    /\ \E key \in ListedKeys : PassesSiteFilter(key) /\ PageOf(key) >= d_start
    /\ d_queued = {}

\* ---- reference notions of the bucket summary tool
\* the listed data objects of a measurement
ListedDataFiles(dirs) ==
    {o \in b_listing : o.dirs = dirs /\ Len(o.dirs) + 1 = 3 /\ o.filename.ext = "csv.gz"}

\* how often an object is in the data_files of its measurement in the cache file
TimesSaved(o) ==
    LET files == EntryOf(b_cache.users, o.dirs, NewMeasurement).data_files
    IN Cardinality({i \in DOMAIN files : files[i].s3_path = o})

\* C28 (as claimed): when gather_info has loaded the cache file and
\* update_summary_file has run, the cache file holds the fresh listing and
\* nothing else: each listed data object once in the data_files of its
\* measurement, no object that is not listed, and in file_counts of every
\* (date, time) the number of listed files of the measurement with that date
\* and time.
C28_UpdateSavesFreshListingOnly ==
    (b_pc = "updated" /\ b_loaded) =>
        /\ b_cache.exists
        /\ \A o \in Range(BucketObjects) :
              TimesSaved(o) = IF o \in ListedDataFiles(o.dirs) THEN 1 ELSE 0
        /\ \A dirs \in {o.dirs : o \in Range(BucketObjects)} :
              \A date \in {1}, time \in {1, 2} :
                 EntryOf(EntryOf(b_cache.users, dirs, NewMeasurement).file_counts,
                         <<date, time>>, 0)
                    = Cardinality({o \in ListedDataFiles(dirs) :
                          /\ ParseFilename(o.filename).date = date
                          /\ ParseFilename(o.filename).time = time})
====
